---- MODULE Spec2Model ----
(***************************************************************************)
(* midisynthd: configuration store, audio driver selection, module         *)
(* initialisation / teardown, configuration reload and the signal-driven   *)
(* daemon loop, modelled from src/src/config.c, audio.c, synth.c,          *)
(* midi_alsa.c, midi_jack.c and main.c.                                    *)
(*                                                                         *)
(* Floating point settings (gain, chorus level, reverb level) are kept in  *)
(* hundredths: gain 0.5f is 50, the bound 2.0f is 200.                     *)
(***************************************************************************)
EXTENDS Integers, Sequences, FiniteSets, TLC

(***************************************************************************)
(* Bounds of the model                                                     *)
(***************************************************************************)
MaxLines == 1
MaxPanic == 2
MaxHup == 2
MaxEdits == 2
MaxSoundfonts == 2
MaxEvents == 2

(***************************************************************************)
(* Program constants (config.c, config.h)                                  *)
(***************************************************************************)
CONFIG_DEFAULT_GAIN == 50
CONFIG_DEFAULT_CHORUS_LEVEL == 120
CONFIG_DEFAULT_REVERB_LEVEL == 90
CONFIG_DEFAULT_SAMPLE_RATE == 48000
CONFIG_DEFAULT_POLYPHONY == 256
CONFIG_DEFAULT_BUFFER_SIZE == 512
CONFIG_DEFAULT_AUDIO_PERIODS == 2
CONFIG_MAX_SOUNDFONTS == 8
CONFIG_DEFAULT_CLIENT_NAME == "MidiSynth Daemon"

LOG_LEVEL_ERROR == 0
LOG_LEVEL_WARN == 1
LOG_LEVEL_INFO == 2
LOG_LEVEL_DEBUG == 3

AUDIO_DRIVER_AUTO == "auto"
AUDIO_DRIVER_JACK == "jack"
AUDIO_DRIVER_PIPEWIRE == "pipewire"
AUDIO_DRIVER_PULSEAUDIO == "pulseaudio"
AUDIO_DRIVER_ALSA == "alsa"

MIDI_DRIVER_ALSA_SEQ == "alsa_seq"
MIDI_DRIVER_ALSA_RAW == "alsa_raw"
MIDI_DRIVER_JACK == "jack_midi"
MIDI_DRIVER_COUNT == "unknown_midi"

MidiDrivers == {MIDI_DRIVER_ALSA_SEQ, MIDI_DRIVER_ALSA_RAW, MIDI_DRIVER_JACK, MIDI_DRIVER_COUNT}

NULL == "NULL"

(***************************************************************************)
(* Configuration file text.  A value is the text right of '=', carried     *)
(* with what strtol/strtof make of it: ok is FALSE when the text is not a  *)
(* number, n is the number read (floats in hundredths).  An empty value    *)
(* converts to 0 with the end pointer on the terminating NUL, so it passes *)
(* the *endptr test; strtof reads the text "nan" completely and returns a  *)
(* NaN.                                                                    *)
(***************************************************************************)
Num(t, v) == [s |-> t, ok |-> TRUE, n |-> v]
Str(t) == [s |-> t, ok |-> FALSE, n |-> 0]
EmptyValue == [s |-> "", ok |-> TRUE, n |-> 0]

(***************************************************************************)
(* A float that is not a number: every ordered comparison with it is       *)
(* false, and it is unequal to everything, itself included.                *)
(***************************************************************************)
NaN == 0 - 999999
NanValue == [s |-> "nan", ok |-> TRUE, n |-> NaN]
FloatLess(a, b) == a # NaN /\ b # NaN /\ a < b
FloatGreater(a, b) == a # NaN /\ b # NaN /\ a > b
FloatNotEqual(a, b) == a = NaN \/ b = NaN \/ a # b
Line(k, v) == [key |-> k, val |-> v]

(***************************************************************************)
(* config.c: the parsers                                                   *)
(***************************************************************************)
parse_log_level(v) ==
    CASE v.s = "debug" -> LOG_LEVEL_DEBUG
      [] v.s = "info" -> LOG_LEVEL_INFO
      [] v.s \in {"warn", "warning"} -> LOG_LEVEL_WARN
      [] v.s = "error" -> LOG_LEVEL_ERROR
      [] OTHER -> LOG_LEVEL_INFO

parse_audio_driver(v) ==
    CASE v.s = "auto" -> AUDIO_DRIVER_AUTO
      [] v.s = "jack" -> AUDIO_DRIVER_JACK
      [] v.s = "pipewire" -> AUDIO_DRIVER_PIPEWIRE
      [] v.s \in {"pulseaudio", "pulse"} -> AUDIO_DRIVER_PULSEAUDIO
      [] v.s = "alsa" -> AUDIO_DRIVER_ALSA
      [] OTHER -> AUDIO_DRIVER_AUTO

parse_bool(v) == v.s \in {"true", "yes", "on", "1"}

parse_float(v, min_val, max_val, default_val) ==
    IF ~v.ok \/ FloatLess(v.n, min_val) \/ FloatGreater(v.n, max_val)
    THEN default_val ELSE v.n

parse_int(v, min_val, max_val, default_val) ==
    IF ~v.ok \/ v.n < min_val \/ v.n > max_val THEN default_val ELSE v.n

(***************************************************************************)
(* config.c: config_init_defaults.  fs is the set of readable paths        *)
(* (access(path, R_OK) == 0).                                              *)
(***************************************************************************)
DefaultSoundfonts == <<"sfDefault">>

RECURSIVE FirstReadable(_, _, _)
FirstReadable(paths, i, fs) ==
    IF i > Len(paths) THEN <<>>
    ELSE IF paths[i] \in fs THEN <<[path |-> paths[i], enabled |-> TRUE]>>
    ELSE FirstReadable(paths, i + 1, fs)

config_init_defaults(fs) ==
    [log_level |-> LOG_LEVEL_INFO,
     audio_driver |-> AUDIO_DRIVER_AUTO,
     midi_driver |-> MIDI_DRIVER_ALSA_SEQ,
     sample_rate |-> CONFIG_DEFAULT_SAMPLE_RATE,
     buffer_size |-> CONFIG_DEFAULT_BUFFER_SIZE,
     audio_periods |-> CONFIG_DEFAULT_AUDIO_PERIODS,
     gain |-> CONFIG_DEFAULT_GAIN,
     client_name |-> CONFIG_DEFAULT_CLIENT_NAME,
     midi_autoconnect |-> TRUE,
     polyphony |-> CONFIG_DEFAULT_POLYPHONY,
     chorus_enabled |-> TRUE,
     chorus_level |-> CONFIG_DEFAULT_CHORUS_LEVEL,
     reverb_enabled |-> TRUE,
     reverb_level |-> CONFIG_DEFAULT_REVERB_LEVEL,
     soundfonts |-> FirstReadable(DefaultSoundfonts, 1, fs),
     realtime_priority |-> TRUE,
     user |-> "",
     group |-> ""]

(***************************************************************************)
(* config.c: parse_config_line (the line is already split at '=' and       *)
(* trimmed; a line without '=' or a comment has key "")                    *)
(***************************************************************************)
(* Variant: the soundfont branch does not test the count. *)
parse_soundfont_no_limit(config, v) ==
    [config EXCEPT !.soundfonts = Append(@, [path |-> v.s, enabled |-> TRUE])]

(* The soundfont / soundfont_path branch: soundfont_count is Len(soundfonts). *)
parse_soundfont(config, v) ==
    IF Len(config.soundfonts) < CONFIG_MAX_SOUNDFONTS
    THEN [config EXCEPT !.soundfonts = Append(@, [path |-> v.s, enabled |-> TRUE])]
    ELSE config

parse_config_line(config, line) ==
    LET k == line.key
        v == line.val
    IN CASE k = "log_level" -> [config EXCEPT !.log_level = parse_log_level(v)]
         [] k = "audio_driver" -> [config EXCEPT !.audio_driver = parse_audio_driver(v)]
         [] k = "sample_rate" ->
              [config EXCEPT !.sample_rate = parse_int(v, 8000, 192000, CONFIG_DEFAULT_SAMPLE_RATE)]
         [] k = "buffer_size" ->
              [config EXCEPT !.buffer_size = parse_int(v, 64, 8192, CONFIG_DEFAULT_BUFFER_SIZE)]
         [] k = "audio_periods" ->
              [config EXCEPT !.audio_periods = parse_int(v, 2, 8, CONFIG_DEFAULT_AUDIO_PERIODS)]
         [] k = "gain" ->
              [config EXCEPT !.gain = parse_float(v, 0, 200, CONFIG_DEFAULT_GAIN)]
         [] k = "client_name" -> [config EXCEPT !.client_name = v.s]
         [] k = "midi_autoconnect" -> [config EXCEPT !.midi_autoconnect = parse_bool(v)]
         [] k = "polyphony" ->
              [config EXCEPT !.polyphony = parse_int(v, 16, 4096, CONFIG_DEFAULT_POLYPHONY)]
         [] k = "chorus_enabled" -> [config EXCEPT !.chorus_enabled = parse_bool(v)]
         [] k = "chorus_level" ->
              [config EXCEPT !.chorus_level = parse_float(v, 0, 1000, CONFIG_DEFAULT_CHORUS_LEVEL)]
         [] k = "reverb_enabled" -> [config EXCEPT !.reverb_enabled = parse_bool(v)]
         [] k = "reverb_level" ->
              [config EXCEPT !.reverb_level = parse_float(v, 0, 1000, CONFIG_DEFAULT_REVERB_LEVEL)]
         [] k \in {"soundfont", "soundfont_path"} -> parse_soundfont(config, v)
         [] k = "realtime_priority" -> [config EXCEPT !.realtime_priority = parse_bool(v)]
         [] k = "user" -> [config EXCEPT !.user = v.s]
         [] k = "group" -> [config EXCEPT !.group = v.s]
         [] OTHER -> config

(***************************************************************************)
(* config.c: config_load_file.  A file name leads to a file that is absent *)
(* (fopen fails with ENOENT), unreadable (fopen fails otherwise) or holds  *)
(* lines; NoFile is the NULL file name.                                    *)
(***************************************************************************)
Absent == [status |-> "absent", lines |-> <<>>]
Unreadable == [status |-> "unreadable", lines |-> <<>>]
NoFile == [status |-> "null", lines |-> <<>>]
FileOf(lines) == [status |-> "ok", lines |-> lines]

(* Variant: a midi_driver key selects the MIDI transport. *)
RECURSIVE ParseLines_reads_midi_driver(_, _, _)
ParseLines_reads_midi_driver(config, lines, i) ==
    IF i > Len(lines) THEN config
    ELSE ParseLines_reads_midi_driver(
            IF lines[i].key = "midi_driver"
            THEN [config EXCEPT !.midi_driver =
                     IF lines[i].val.s = "jack" THEN MIDI_DRIVER_JACK
                     ELSE IF lines[i].val.s = "alsa_raw" THEN MIDI_DRIVER_ALSA_RAW
                     ELSE MIDI_DRIVER_ALSA_SEQ]
            ELSE parse_config_line(config, lines[i]),
            lines, i + 1)

RECURSIVE ParseLines(_, _, _)
ParseLines(config, lines, i) ==
    IF i > Len(lines) THEN config
    ELSE ParseLines(parse_config_line(config, lines[i]), lines, i + 1)

config_load_file(config, file) ==
    IF file.status # "ok"
    THEN [ret |-> -1, config |-> config]
    ELSE [ret |-> 0, config |-> ParseLines(config, file.lines, 1)]

(***************************************************************************)
(* config.c: config_load (system file, then user file)                     *)
(***************************************************************************)
config_load_user_first(config, sysFile, userFile) ==
    LET r1 == config_load_file(config, userFile)
        r2 == config_load_file(r1.config, sysFile)
        loaded_files == (IF r1.ret = 0 THEN 1 ELSE 0) + (IF r2.ret = 0 THEN 1 ELSE 0)
    IN [ret |-> IF loaded_files = 0 THEN -1 ELSE 0, config |-> r2.config]

config_load(config, sysFile, userFile) ==
    LET r1 == config_load_file(config, sysFile)
        r2 == config_load_file(r1.config, userFile)
        loaded_files == (IF r1.ret = 0 THEN 1 ELSE 0) + (IF r2.ret = 0 THEN 1 ELSE 0)
    IN [ret |-> IF loaded_files = 0 THEN -1 ELSE 0, config |-> r2.config]

(***************************************************************************)
(* config.c: config_validate                                               *)
(***************************************************************************)
FixIf(bad) == IF bad THEN 1 ELSE 0

valid_soundfonts_enabled_only(sfs, fs) ==
    {i \in 1..Len(sfs) : sfs[i].enabled /\ sfs[i].path # ""}

valid_soundfonts(sfs, fs) ==
    {i \in 1..Len(sfs) : sfs[i].enabled /\ sfs[i].path # "" /\ sfs[i].path \in fs}

(* Variant: an inaccessible entry is counted and left enabled. *)
ValidateSoundfonts_counts_only(sfs, fs) == sfs

ValidateSoundfonts(sfs, fs) ==
    [i \in 1..Len(sfs) |->
        IF sfs[i].enabled /\ sfs[i].path # "" /\ sfs[i].path \notin fs
        THEN [sfs[i] EXCEPT !.enabled = FALSE]
        ELSE sfs[i]]

config_validate(config, fs) ==
    LET badRate == config.sample_rate < 8000 \/ config.sample_rate > 192000
        badBuf == config.buffer_size < 64 \/ config.buffer_size > 8192
        badPer == config.audio_periods < 2 \/ config.audio_periods > 8
        badGain == FloatLess(config.gain, 0) \/ FloatGreater(config.gain, 200)
        badPoly == config.polyphony < 16 \/ config.polyphony > 4096
        badCho == FloatLess(config.chorus_level, 0) \/ FloatGreater(config.chorus_level, 1000)
        badRev == FloatLess(config.reverb_level, 0) \/ FloatGreater(config.reverb_level, 1000)
        badName == config.client_name = ""
        sfs == config.soundfonts
        inaccessible == {i \in 1..Len(sfs) :
                            sfs[i].enabled /\ sfs[i].path # "" /\ sfs[i].path \notin fs}
        fixes == FixIf(badRate) + FixIf(badBuf) + FixIf(badPer) + FixIf(badGain)
                 + FixIf(badPoly) + FixIf(badCho) + FixIf(badRev) + FixIf(badName)
                 + Cardinality(inaccessible)
        fixed == [config EXCEPT
                    !.sample_rate = IF badRate THEN CONFIG_DEFAULT_SAMPLE_RATE ELSE @,
                    !.buffer_size = IF badBuf THEN CONFIG_DEFAULT_BUFFER_SIZE ELSE @,
                    !.audio_periods = IF badPer THEN CONFIG_DEFAULT_AUDIO_PERIODS ELSE @,
                    !.gain = IF badGain THEN CONFIG_DEFAULT_GAIN ELSE @,
                    !.polyphony = IF badPoly THEN CONFIG_DEFAULT_POLYPHONY ELSE @,
                    !.chorus_level = IF badCho THEN CONFIG_DEFAULT_CHORUS_LEVEL ELSE @,
                    !.reverb_level = IF badRev THEN CONFIG_DEFAULT_REVERB_LEVEL ELSE @,
                    !.client_name = IF badName THEN CONFIG_DEFAULT_CLIENT_NAME ELSE @,
                    !.soundfonts = ValidateSoundfonts(@, fs)]
    IN [ret |-> IF valid_soundfonts(sfs, fs) = {} THEN -1 ELSE fixes, config |-> fixed]

(***************************************************************************)
(* config.c: config_cleanup (memset to zero)                               *)
(***************************************************************************)
ZeroConfig ==
    [log_level |-> LOG_LEVEL_ERROR,
     audio_driver |-> AUDIO_DRIVER_AUTO,
     midi_driver |-> MIDI_DRIVER_ALSA_SEQ,
     sample_rate |-> 0,
     buffer_size |-> 0,
     audio_periods |-> 0,
     gain |-> 0,
     client_name |-> "",
     midi_autoconnect |-> FALSE,
     polyphony |-> 0,
     chorus_enabled |-> FALSE,
     chorus_level |-> 0,
     reverb_enabled |-> FALSE,
     reverb_level |-> 0,
     soundfonts |-> <<>>,
     realtime_priority |-> FALSE,
     user |-> "",
     group |-> ""]

config_cleanup(config) == ZeroConfig

(***************************************************************************)
(* audio.c: detect_audio_driver.  snap is what each probe answers when it  *)
(* is asked: [jack, pipewire, pulseaudio : BOOLEAN].  The result carries   *)
(* the probes that were run, in call order.                                *)
(***************************************************************************)
Snapshots == [jack : BOOLEAN, pipewire : BOOLEAN, pulseaudio : BOOLEAN]

(* Variant: PulseAudio is probed before PipeWire. *)
detect_audio_driver_pulse_first(requested_driver, snap) ==
    IF requested_driver # AUDIO_DRIVER_AUTO
    THEN [driver |-> requested_driver, probes |-> <<>>]
    ELSE IF snap.jack
    THEN [driver |-> AUDIO_DRIVER_JACK, probes |-> <<"jack">>]
    ELSE IF snap.pulseaudio
    THEN [driver |-> AUDIO_DRIVER_PULSEAUDIO, probes |-> <<"jack", "pulseaudio">>]
    ELSE IF snap.pipewire
    THEN [driver |-> AUDIO_DRIVER_PIPEWIRE, probes |-> <<"jack", "pulseaudio", "pipewire">>]
    ELSE [driver |-> AUDIO_DRIVER_ALSA, probes |-> <<"jack", "pulseaudio", "pipewire">>]

(* Variant: the requested driver is only a hint; the probes run anyway and *)
(* an unavailable requested server is replaced by the best available one.  *)
detect_audio_driver_probe_always(requested_driver, snap) ==
    LET avail == [jack |-> snap.jack, pipewire |-> snap.pipewire,
                  pulseaudio |-> snap.pulseaudio, alsa |-> TRUE, auto |-> FALSE]
        all == <<"jack", "pipewire", "pulseaudio">>
    IN IF avail[requested_driver]
       THEN [driver |-> requested_driver, probes |-> all]
       ELSE IF snap.jack THEN [driver |-> AUDIO_DRIVER_JACK, probes |-> all]
       ELSE IF snap.pipewire THEN [driver |-> AUDIO_DRIVER_PIPEWIRE, probes |-> all]
       ELSE IF snap.pulseaudio THEN [driver |-> AUDIO_DRIVER_PULSEAUDIO, probes |-> all]
       ELSE [driver |-> AUDIO_DRIVER_ALSA, probes |-> all]

detect_audio_driver(requested_driver, snap) ==
    IF requested_driver # AUDIO_DRIVER_AUTO
    THEN [driver |-> requested_driver, probes |-> <<>>]
    ELSE IF snap.jack
    THEN [driver |-> AUDIO_DRIVER_JACK, probes |-> <<"jack">>]
    ELSE IF snap.pipewire
    THEN [driver |-> AUDIO_DRIVER_PIPEWIRE, probes |-> <<"jack", "pipewire">>]
    ELSE IF snap.pulseaudio
    THEN [driver |-> AUDIO_DRIVER_PULSEAUDIO, probes |-> <<"jack", "pipewire", "pulseaudio">>]
    ELSE [driver |-> AUDIO_DRIVER_ALSA, probes |-> <<"jack", "pipewire", "pulseaudio">>]

(***************************************************************************)
(* audio.c: audio_init.  ext holds the answers of the FluidSynth library:  *)
(* settings (new_fluid_settings), cfg1/cfg2 (configure_audio_settings for  *)
(* the detected driver / for the ALSA fallback), act1/act2                 *)
(* (new_fluid_audio_driver, first call / call after the fallback).         *)
(* attempts lists the calls of new_fluid_audio_driver; reconfigured tells   *)
(* whether configure_audio_settings was called for the ALSA fallback and   *)
(* how it ended ("no", "failed", "ok").                                    *)
(***************************************************************************)
AudioExt == [settings : BOOLEAN, cfg1 : BOOLEAN, act1 : BOOLEAN, cfg2 : BOOLEAN, act2 : BOOLEAN]

NoAudio == [state |-> "none", detected_driver |-> AUDIO_DRIVER_AUTO]

(* Variant: the fallback does not test whether the failed driver was ALSA. *)
audio_init_retry_always(config, snap, ext) ==
    LET det == detect_audio_driver(config.audio_driver, snap)
        first == [driver |-> det.driver, ok |-> ext.act1]
        second == [driver |-> AUDIO_DRIVER_ALSA, ok |-> ext.act2]
        base == [selected |-> det.driver, probes |-> det.probes, reconfigured |-> "no"]
        fail(att, rc) == [base EXCEPT !.reconfigured = rc] @@
                         [ret |-> NULL, audio |-> NoAudio, attempts |-> att]
        done(att, rc, drv) == [base EXCEPT !.reconfigured = rc] @@
                         [ret |-> "audio", attempts |-> att,
                          audio |-> [state |-> "open", detected_driver |-> drv]]
    IN IF ~ext.settings THEN fail(<<>>, "no")
       ELSE IF ~ext.cfg1 THEN fail(<<>>, "no")
       ELSE IF ext.act1 THEN done(<<first>>, "no", det.driver)
       ELSE IF ~ext.cfg2 THEN fail(<<first>>, "failed")
       ELSE IF ext.act2 THEN done(<<first, second>>, "ok", AUDIO_DRIVER_ALSA)
       ELSE fail(<<first, second>>, "ok")

audio_init(config, snap, ext) ==
    LET det == detect_audio_driver(config.audio_driver, snap)
        first == [driver |-> det.driver, ok |-> ext.act1]
        second == [driver |-> AUDIO_DRIVER_ALSA, ok |-> ext.act2]
        base == [selected |-> det.driver, probes |-> det.probes, reconfigured |-> "no"]
        fail(att, rc) == [base EXCEPT !.reconfigured = rc] @@
                         [ret |-> NULL, audio |-> NoAudio, attempts |-> att]
        done(att, rc, drv) == [base EXCEPT !.reconfigured = rc] @@
                         [ret |-> "audio", attempts |-> att,
                          audio |-> [state |-> "open", detected_driver |-> drv]]
    IN IF ~ext.settings THEN fail(<<>>, "no")
       ELSE IF ~ext.cfg1 THEN fail(<<>>, "no")
       ELSE IF ext.act1 THEN done(<<first>>, "no", det.driver)
       ELSE IF det.driver = AUDIO_DRIVER_ALSA THEN fail(<<first>>, "no")
       ELSE IF ~ext.cfg2 THEN fail(<<first>>, "failed")
       ELSE IF ext.act2 THEN done(<<first, second>>, "ok", AUDIO_DRIVER_ALSA)
       ELSE fail(<<first, second>>, "ok")

(***************************************************************************)
(* audio.c: audio_cleanup                                                  *)
(***************************************************************************)
audio_cleanup(audio) == [audio EXCEPT !.state = "closed"]

(***************************************************************************)
(* synth.c: the synthesizer object.  config is the pointer kept in         *)
(* synth->config: the name of the configuration structure it points to.    *)
(* UnsetLevel stands for a level the daemon has not set (setup_effects     *)
(* sets the level only when the effect is enabled).                        *)
(***************************************************************************)
UnsetLevel == -1

NoSynth ==
    [state |-> "none", config |-> NULL, audio_driver |-> AUDIO_DRIVER_AUTO,
     gain |-> 0, chorus_on |-> FALSE, chorus_level |-> UnsetLevel,
     reverb_on |-> FALSE, reverb_level |-> UnsetLevel, panics |-> 0]

(***************************************************************************)
(* synth.c: load_soundfonts.  loadable is the set of paths                 *)
(* fluid_synth_sfload accepts; default_sf tells whether                    *)
(* find_available_soundfont finds one of synth.c's own default paths and   *)
(* the library loads it.                                                   *)
(***************************************************************************)
load_soundfonts(config, fs, loadable, default_sf) ==
    LET sfs == config.soundfonts
        loaded == {i \in 1..Len(sfs) :
                      i <= CONFIG_MAX_SOUNDFONTS /\ sfs[i].enabled
                      /\ sfs[i].path # "" /\ sfs[i].path \in fs /\ sfs[i].path \in loadable}
        loaded_count == Cardinality(loaded) + (IF loaded = {} /\ default_sf THEN 1 ELSE 0)
    IN IF loaded_count = 0 THEN -1 ELSE 0

(***************************************************************************)
(* synth.c: synth_init (setup_fluidsynth_settings, load_soundfonts,        *)
(* setup_effects, new_fluid_audio_driver).  cfgptr is the pointer passed   *)
(* as config, config the structure it points to.                           *)
(***************************************************************************)
SynthExt == [settings : BOOLEAN, synth : BOOLEAN, default_sf : BOOLEAN, driver : BOOLEAN]

synth_init(cfgptr, config, fs, loadable, ext) ==
    IF ~ext.settings \/ ~ext.synth
       \/ load_soundfonts(config, fs, loadable, ext.default_sf) < 0
       \/ ~ext.driver
    THEN [ret |-> NULL, synth |-> NoSynth]
    ELSE [ret |-> "synth",
          synth |-> [state |-> "alive", config |-> cfgptr,
                     audio_driver |-> config.audio_driver,
                     gain |-> config.gain,
                     chorus_on |-> config.chorus_enabled,
                     chorus_level |-> IF config.chorus_enabled THEN config.chorus_level
                                      ELSE UnsetLevel,
                     reverb_on |-> config.reverb_enabled,
                     reverb_level |-> IF config.reverb_enabled THEN config.reverb_level
                                      ELSE UnsetLevel,
                     panics |-> 0]]

(***************************************************************************)
(* synth.c: synth_cleanup                                                  *)
(***************************************************************************)
synth_cleanup(synth) == [synth EXCEPT !.state = "destroyed"]

(***************************************************************************)
(* synth.c: synth_update_settings.  old_config is what synth->config       *)
(* points to when the function is entered, newptr / new_config the         *)
(* argument.                                                               *)
(***************************************************************************)
synth_update_settings(synth, old_config, newptr, new_config) ==
    IF synth.state # "alive" THEN synth
    ELSE LET s1 == IF FloatNotEqual(new_config.gain, old_config.gain)
                   THEN [synth EXCEPT !.gain = new_config.gain] ELSE synth
             s2 == IF new_config.chorus_enabled # old_config.chorus_enabled
                      \/ FloatNotEqual(new_config.chorus_level, old_config.chorus_level)
                   THEN IF new_config.chorus_enabled
                        THEN [s1 EXCEPT !.chorus_on = TRUE,
                                        !.chorus_level = new_config.chorus_level]
                        ELSE [s1 EXCEPT !.chorus_on = FALSE]
                   ELSE s1
             s3 == IF new_config.reverb_enabled # old_config.reverb_enabled
                      \/ FloatNotEqual(new_config.reverb_level, old_config.reverb_level)
                   THEN IF new_config.reverb_enabled
                        THEN [s2 EXCEPT !.reverb_on = TRUE,
                                        !.reverb_level = new_config.reverb_level]
                        ELSE [s2 EXCEPT !.reverb_on = FALSE]
                   ELSE s2
         IN [s3 EXCEPT !.config = newptr]

(***************************************************************************)
(* synth.c: synth_all_notes_off (one cycle over the 16 channels; the       *)
(* model counts the cycles, capped by MaxPanic) and synth_get_status       *)
(* (reads the engine, changes nothing in it).                              *)
(***************************************************************************)
(* The loop of synth_all_notes_off from channel on: one engine call per   *)
(* channel, whose failure is logged and changes nothing; failed is the set *)
(* of channels for which fluid_synth_all_notes_off does not return         *)
(* FLUID_OK.                                                               *)
RECURSIVE AllNotesOffLoop_stops_on_failure(_, _)
AllNotesOffLoop_stops_on_failure(channel, failed) ==
    IF channel >= 16 THEN <<>>
    ELSE IF channel \in failed THEN <<[channel |-> channel, ok |-> FALSE]>>
    ELSE <<[channel |-> channel, ok |-> TRUE]>>
             \o AllNotesOffLoop_stops_on_failure(channel + 1, failed)

RECURSIVE AllNotesOffLoop(_, _)
AllNotesOffLoop(channel, failed) ==
    IF channel >= 16 THEN <<>>
    ELSE <<[channel |-> channel, ok |-> channel \notin failed]>>
             \o AllNotesOffLoop(channel + 1, failed)

synth_all_notes_off(synth) ==
    IF synth.state # "alive" THEN synth
    ELSE [synth EXCEPT !.panics = IF @ < MaxPanic THEN @ + 1 ELSE @]

synth_get_status_resets_gain(synth) == [synth EXCEPT !.gain = 0]

synth_get_status(synth) == synth

(***************************************************************************)
(* midi_alsa.c / midi_jack.c: the MIDI transport object                    *)
(***************************************************************************)
NoMidi == [kind |-> "none", state |-> "none", running |-> FALSE,
           thread |-> "none", bad_join |-> FALSE]

AlsaInitSteps == <<"snd_seq_open", "snd_seq_set_client_name", "snd_seq_client_id",
                   "snd_seq_create_simple_port", "snd_seq_poll_descriptors_count",
                   "calloc", "snd_seq_poll_descriptors", "pthread_create">>

JackInitSteps == <<"jack_client_open", "jack_port_register", "jack_activate">>

StepsOf(seq) == {seq[i] : i \in 1..Len(seq)}

(***************************************************************************)
(* midi_alsa.c: midi_alsa_cleanup                                          *)
(***************************************************************************)
midi_alsa_cleanup(midi) ==
    [midi EXCEPT !.running = FALSE,
                 !.thread = IF midi.running /\ @ = "running" THEN "joined" ELSE @,
                 !.bad_join = @ \/ (midi.running /\ midi.thread = "none"),
                 !.state = "closed"]

(***************************************************************************)
(* midi_alsa.c: midi_alsa_init.  fail_at is the library call that fails,   *)
(* "none" when all succeed.  The error path runs midi_alsa_cleanup on the  *)
(* half-built object.                                                      *)
(***************************************************************************)
midi_alsa_init(fail_at) ==
    IF fail_at = "none"
    THEN [ret |-> "midi",
          midi |-> [kind |-> "alsa", state |-> "open", running |-> TRUE,
                    thread |-> "running", bad_join |-> FALSE]]
    ELSE [ret |-> NULL,
          midi |-> midi_alsa_cleanup([kind |-> "alsa", state |-> "none", running |-> TRUE,
                                      thread |-> "none", bad_join |-> FALSE])]

(***************************************************************************)
(* midi_jack.c: midi_jack_init, midi_jack_cleanup                          *)
(***************************************************************************)
midi_jack_cleanup(midi) == [midi EXCEPT !.state = "closed"]

midi_jack_init(fail_at) ==
    IF fail_at = "none"
    THEN [ret |-> "midi",
          midi |-> [kind |-> "jack", state |-> "open", running |-> FALSE,
                    thread |-> "none", bad_join |-> FALSE]]
    ELSE [ret |-> NULL, midi |-> NoMidi]

(***************************************************************************)
(* midi_alsa_process_events, midi_jack_process_events                      *)
(***************************************************************************)
midi_alsa_process_events(midi) == IF midi.state # "open" \/ ~midi.running THEN -1 ELSE 0

midi_jack_process_events(midi) == IF midi.state # "open" THEN -1 ELSE 0

(***************************************************************************)
(* midi_jack.c: midi_jack_disconnect_all; midi_alsa_disconnect_all (called *)
(* by main.c, defined in no source file: taken from the design, where a    *)
(* transport's emergency disconnect is equivalent to all-notes-off)        *)
(***************************************************************************)
midi_jack_disconnect_all(midi, synth) ==
    IF midi.state # "open" THEN synth ELSE synth_all_notes_off(synth)

midi_alsa_disconnect_all(midi, synth) ==
    IF midi.state # "open" THEN synth ELSE synth_all_notes_off(synth)

(***************************************************************************)
(* main.c: load_configuration.  config_file and soundfont_override are the *)
(* command line options (NULL when not given); the verbosity, user, group  *)
(* and no-realtime overrides touch no field the model reads and are left   *)
(* out.                                                                    *)
(***************************************************************************)
load_configuration(fs, config_file, sysFile, userFile, soundfont_override) ==
    LET c0 == config_init_defaults(fs)
        r == config_load_file(c0, config_file)
        c1 == IF config_file # NoFile THEN r.config ELSE config_load(c0, sysFile, userFile).config
        c2 == IF soundfont_override # NULL
              THEN [c1 EXCEPT !.soundfonts = <<[path |-> soundfont_override, enabled |-> TRUE]>>]
              ELSE c1
        v == config_validate(c2, fs)
    IN IF config_file # NoFile /\ r.ret < 0 THEN [ret |-> -1, config |-> c0]
       ELSE [ret |-> IF v.ret < 0 THEN -1 ELSE 0, config |-> v.config]

(***************************************************************************)
(* main.c: the soundfont access check of main                              *)
(***************************************************************************)
soundfont_check(config, fs) ==
    IF Len(config.soundfonts) > 0 /\ config.soundfonts[1].enabled
    THEN config.soundfonts[1].path \in fs
    ELSE FALSE

(***************************************************************************)
(* main.c: initialize_modules, the MIDI part.  The result carries the      *)
(* transports whose initialisation was attempted.                          *)
(***************************************************************************)
(* Variant: a failed ALSA sequencer falls back to the JACK transport. *)
initialize_midi_try_other(midi_driver, fail_at) ==
    LET a == midi_alsa_init(IF fail_at \in StepsOf(AlsaInitSteps) THEN fail_at ELSE "none")
        j == midi_jack_init(IF fail_at \in StepsOf(JackInitSteps) THEN fail_at ELSE "none")
        viaJack(att) == [ret |-> IF j.ret = NULL THEN -1 ELSE 0, g_midi |-> j.ret,
                         midi |-> j.midi, attempts |-> att]
    IN CASE midi_driver = MIDI_DRIVER_ALSA_SEQ ->
              IF a.ret # NULL
              THEN [ret |-> 0, g_midi |-> a.ret, midi |-> a.midi,
                    attempts |-> <<MIDI_DRIVER_ALSA_SEQ>>]
              ELSE viaJack(<<MIDI_DRIVER_ALSA_SEQ, MIDI_DRIVER_JACK>>)
         [] midi_driver = MIDI_DRIVER_JACK -> viaJack(<<MIDI_DRIVER_JACK>>)
         [] OTHER ->
              [ret |-> -1, g_midi |-> NULL, midi |-> NoMidi, attempts |-> <<>>]

initialize_midi(midi_driver, fail_at) ==
    LET a == midi_alsa_init(IF fail_at \in StepsOf(AlsaInitSteps) THEN fail_at ELSE "none")
        j == midi_jack_init(IF fail_at \in StepsOf(JackInitSteps) THEN fail_at ELSE "none")
    IN CASE midi_driver = MIDI_DRIVER_ALSA_SEQ ->
              [ret |-> IF a.ret = NULL THEN -1 ELSE 0, g_midi |-> a.ret, midi |-> a.midi,
               attempts |-> <<MIDI_DRIVER_ALSA_SEQ>>]
         [] midi_driver = MIDI_DRIVER_JACK ->
              [ret |-> IF j.ret = NULL THEN -1 ELSE 0, g_midi |-> j.ret, midi |-> j.midi,
               attempts |-> <<MIDI_DRIVER_JACK>>]
         [] OTHER ->
              [ret |-> -1, g_midi |-> NULL, midi |-> NoMidi, attempts |-> <<>>]

(***************************************************************************)
(* main.c: reload_configuration.  synth->config and the argument of        *)
(* synth_update_settings are both &g_config, so what synth->config points  *)
(* to is the live configuration as already rewritten by the reload.        *)
(***************************************************************************)
HotFields == {"log_level", "gain", "chorus_enabled", "chorus_level",
              "reverb_enabled", "reverb_level"}

PointsTo(ptr, live, scratch) == IF ptr = "g_config" THEN live ELSE scratch

(* Variant: the result of config_validate is not tested. *)
reload_configuration_unvalidated(live, g_synth_ptr, synth, fs, sysFile, userFile) ==
    LET l == config_load(config_init_defaults(fs), sysFile, userFile)
        v == config_validate(l.config, fs)
        applied == [live EXCEPT !.log_level = v.config.log_level, !.gain = v.config.gain,
                                !.chorus_enabled = v.config.chorus_enabled,
                                !.chorus_level = v.config.chorus_level,
                                !.reverb_enabled = v.config.reverb_enabled,
                                !.reverb_level = v.config.reverb_level]
    IN IF l.ret < 0
       THEN [ret |-> -1, result |-> "load_failed", config |-> live, synth |-> synth,
             new_config |-> l.config]
       ELSE [ret |-> IF v.ret < 0 THEN -1 ELSE 0,
             result |-> IF v.ret < 0 THEN "invalid" ELSE "ok",
             config |-> applied, synth |-> synth, new_config |-> v.config]

(* Variant: the whole scratch structure is copied over the live one. *)
reload_configuration_copy_all(live, g_synth_ptr, synth, fs, sysFile, userFile) ==
    LET l == config_load(config_init_defaults(fs), sysFile, userFile)
        v == config_validate(l.config, fs)
    IN IF l.ret < 0
       THEN [ret |-> -1, result |-> "load_failed", config |-> live, synth |-> synth,
             new_config |-> l.config]
       ELSE IF v.ret < 0
       THEN [ret |-> -1, result |-> "invalid", config |-> live, synth |-> synth,
             new_config |-> v.config]
       ELSE [ret |-> 0, result |-> "ok", config |-> v.config, synth |-> synth,
             new_config |-> v.config]

reload_configuration(live, g_synth_ptr, synth, fs, sysFile, userFile) ==
    LET outcome(l, v) ==
            LET new_config == v.config
                applied == [live EXCEPT !.log_level = new_config.log_level,
                                        !.gain = new_config.gain,
                                        !.chorus_enabled = new_config.chorus_enabled,
                                        !.chorus_level = new_config.chorus_level,
                                        !.reverb_enabled = new_config.reverb_enabled,
                                        !.reverb_level = new_config.reverb_level]
            IN IF l.ret < 0
               THEN [ret |-> -1, result |-> "load_failed", config |-> live, synth |-> synth,
                     new_config |-> l.config]
               ELSE IF v.ret < 0
               THEN [ret |-> -1, result |-> "invalid", config |-> live, synth |-> synth,
                     new_config |-> new_config]
               ELSE [ret |-> 0, result |-> "ok", config |-> applied,
                     synth |-> IF g_synth_ptr # NULL
                               THEN synth_update_settings(synth,
                                        PointsTo(synth.config, applied, new_config),
                                        "g_config", applied)
                               ELSE synth,
                     new_config |-> new_config]
        \* config_load and config_validate are each called once
        outcomes == UNION {{outcome(l, v) : v \in {config_validate(l.config, fs)}} :
                             l \in {config_load(config_init_defaults(fs), sysFile, userFile)}}
    IN CHOOSE r \in outcomes : TRUE

(***************************************************************************)
(* main.c: cleanup_modules, statement by statement                         *)
(***************************************************************************)
(* Variant: the synthesizer is destroyed before the MIDI transport is closed. *)
CleanupSteps_synth_first ==
    <<"synth_cleanup", "g_synth_null", "midi_cleanup", "g_midi_null",
      "audio_cleanup", "g_audio_null", "config_cleanup">>

CleanupSteps == <<"midi_cleanup", "g_midi_null", "synth_cleanup", "g_synth_null",
                  "audio_cleanup", "g_audio_null", "config_cleanup">>

(***************************************************************************)
(* Inputs of the model: configuration files and readable paths             *)
(***************************************************************************)
SfPaths == {"sfDefault", "sfA"}

Lines == {Line("gain", Num("1.0", 100)),
          Line("audio_driver", Str("alsa"))}

RECURSIVE SeqsUpTo(_, _)
SeqsUpTo(S, n) ==
    IF n = 0 THEN {<<>>}
    ELSE LET shorter == SeqsUpTo(S, n - 1)
         IN shorter \cup {Append(q, x) : q \in {t \in shorter : Len(t) = n - 1}, x \in S}

Files == {Absent} \cup {FileOf(q) : q \in SeqsUpTo(Lines, MaxLines)}

(***************************************************************************)
(* The pairs (system file, user file) config_load can find.  Pairs that    *)
(* load to the same configuration are indistinguishable afterwards:        *)
(* FilePairs[f] keeps one pair for each distinct result of config_load     *)
(* with the readable soundfonts f.                                         *)
(***************************************************************************)
AllFilePairs == Files \X Files

LoadResult(f, p) == config_load(config_init_defaults(f), p[1], p[2])

FilePairs ==
    [f \in SUBSET SfPaths |->
        LET outcomes == {LoadResult(f, p) : p \in AllFilePairs}
        IN {CHOOSE p \in AllFilePairs : LoadResult(f, p) = o : o \in outcomes}]


(***************************************************************************)
(* State                                                                   *)
(***************************************************************************)
VARIABLES
    pc,              \* position of the main thread
    fs,              \* the readable soundfont paths
    handlers,        \* setup_signals has installed signal_handler
    g_running, g_reload_config, g_config,
    g_audio, g_synth, g_midi,          \* the global handles (NULL or an address)
    audio_obj, synth_obj, midi_obj,    \* the objects the handles point to
    ret,             \* exit code of main
    cleanup_i,       \* next statement of cleanup_modules
    entered_loop,    \* main_loop has been entered
    audio_trace,     \* what the audio_init call just made did (cleared by the next step)
    midi_attempts,   \* MIDI transports whose initialisation was attempted
    last_reload,     \* what the reload_configuration call just made did (cleared by the next step)
    lib_call,        \* the library call (config.h, synth.h) just made on the structure
    hup_pending,     \* SIGHUPs delivered since g_reload_config was last cleared
    iter_reloads,    \* reload cycles run in the current loop iteration
    midi_thread      \* the MIDI input context: where midi_thread_func is, midi->synth, the
                     \* events sent to the port, the buffers they wait in, the router calls made

vars == <<pc, fs, handlers, g_running, g_reload_config, g_config, g_audio, g_synth, g_midi,
          audio_obj, synth_obj, midi_obj, ret, cleanup_i, entered_loop, audio_trace,
          midi_attempts, last_reload, hup_pending, iter_reloads, lib_call, midi_thread>>

EXIT_SUCCESS == 0
EXIT_FAILURE == 1

NoTrace == [called |-> FALSE, requested |-> AUDIO_DRIVER_AUTO,
            snap |-> [jack |-> FALSE, pipewire |-> FALSE, pulseaudio |-> FALSE],
            selected |-> AUDIO_DRIVER_AUTO, probes |-> <<>>, attempts |-> <<>>,
            reconfigured |-> "no", ret |-> NULL, detected |-> AUDIO_DRIVER_AUTO]

NoReload == [result |-> "none", new_config |-> ZeroConfig, requests |-> 0]

NoCall == [fn |-> "none", before |-> ZeroConfig, files |-> <<>>, ret |-> 0]

(* No MIDI input context: no thread, nothing sent, nothing routed.         *)
NoThread == [pc |-> "none", synth |-> NULL, sent |-> 0, fifo |-> <<>>, ibuf |-> <<>>,
             calls |-> <<>>]

(***************************************************************************)
(* Initial states.  Init is the process at the start of main;              *)
(* InitModules is main at the call of initialize_modules (configuration    *)
(* loaded and validated, signal handlers installed) for each value of the  *)
(* MIDI driver selector.                                                   *)
(***************************************************************************)
InitCommon ==
    /\ g_running = 1
    /\ g_reload_config = 0
    /\ g_audio = NULL /\ g_synth = NULL /\ g_midi = NULL
    /\ audio_obj = NoAudio /\ synth_obj = NoSynth /\ midi_obj = NoMidi
    /\ ret = EXIT_SUCCESS
    /\ cleanup_i = 1
    /\ entered_loop = FALSE
    /\ audio_trace = NoTrace
    /\ midi_attempts = <<>>
    /\ last_reload = NoReload
    /\ hup_pending = 0
    /\ iter_reloads = 0
    /\ lib_call = NoCall
    /\ midi_thread = NoThread

Init ==
    /\ pc = "load_configuration"
    /\ fs \in SUBSET SfPaths
    /\ handlers = FALSE
    /\ g_config = ZeroConfig
    /\ InitCommon

InitModules ==
    /\ pc = "init_audio"
    /\ fs = SfPaths
    /\ handlers = TRUE
    /\ \E d \in MidiDrivers, a \in {AUDIO_DRIVER_AUTO, AUDIO_DRIVER_JACK, AUDIO_DRIVER_ALSA} :
          g_config = [config_validate(config_init_defaults(SfPaths), SfPaths).config
                         EXCEPT !.midi_driver = d, !.audio_driver = a]
    /\ InitCommon

(***************************************************************************)
(* main.c: main, up to initialize_modules                                  *)
(***************************************************************************)
(* Variant: the error path jumps to cleanup without setting the exit code. *)
Fail_keeps_ret == /\ ret' = ret
                  /\ pc' = "cleanup"

Fail == /\ ret' = EXIT_FAILURE
        /\ pc' = "cleanup"

LoadConfigurationWith(config_files, overrides, pairs) ==
    /\ pc = "load_configuration"
    /\ \E config_file \in {NoFile} \cup config_files,
          soundfont_override \in {NULL} \cup overrides, test_config \in BOOLEAN :
       \E p \in IF config_file = NoFile THEN pairs ELSE {<<Absent, Absent>>} :
          LET r == load_configuration(fs, config_file, p[1], p[2], soundfont_override)
          IN /\ g_config' = r.config
             /\ IF r.ret < 0 THEN Fail
                ELSE IF test_config THEN pc' = "config_print" /\ ret' = ret
                ELSE pc' = "check_soundfont" /\ ret' = ret
    /\ UNCHANGED <<midi_thread, fs, handlers, g_running, g_reload_config, g_audio, g_synth, g_midi,
                   audio_obj, synth_obj, midi_obj, cleanup_i, entered_loop, audio_trace,
                   midi_attempts, last_reload, hup_pending, iter_reloads, lib_call>>

LoadConfiguration == LoadConfigurationWith(Files, SfPaths, FilePairs[fs])

ConfigPrint ==
    /\ pc = "config_print"
    /\ pc' = "cleanup"
    /\ UNCHANGED <<midi_thread, fs, handlers, g_running, g_reload_config, g_config, g_audio, g_synth,
                   g_midi, audio_obj, synth_obj, midi_obj, ret, cleanup_i, entered_loop,
                   audio_trace, midi_attempts, last_reload, hup_pending, iter_reloads, lib_call>>

CheckSoundfont ==
    /\ pc = "check_soundfont"
    /\ IF soundfont_check(g_config, fs) THEN pc' = "daemonize" /\ ret' = ret ELSE Fail
    /\ UNCHANGED <<midi_thread, fs, handlers, g_running, g_reload_config, g_config, g_audio, g_synth,
                   g_midi, audio_obj, synth_obj, midi_obj, cleanup_i, entered_loop,
                   audio_trace, midi_attempts, last_reload, hup_pending, iter_reloads, lib_call>>

Daemonize ==
    /\ pc = "daemonize"
    /\ \E daemonize \in BOOLEAN, daemon_ok \in BOOLEAN, drop_ok \in BOOLEAN :
          IF (daemonize /\ ~daemon_ok) \/ ~drop_ok THEN Fail
          ELSE pc' = "setup_signals" /\ ret' = ret
    /\ UNCHANGED <<midi_thread, fs, handlers, g_running, g_reload_config, g_config, g_audio, g_synth,
                   g_midi, audio_obj, synth_obj, midi_obj, cleanup_i, entered_loop,
                   audio_trace, midi_attempts, last_reload, hup_pending, iter_reloads, lib_call>>

SetupSignals ==
    /\ pc = "setup_signals"
    /\ \E ok \in BOOLEAN :
          IF ok THEN handlers' = TRUE /\ pc' = "init_audio" /\ ret' = ret
          ELSE handlers' = handlers /\ Fail
    /\ UNCHANGED <<midi_thread, fs, g_running, g_reload_config, g_config, g_audio, g_synth,
                   g_midi, audio_obj, synth_obj, midi_obj, cleanup_i, entered_loop,
                   audio_trace, midi_attempts, last_reload, hup_pending, iter_reloads, lib_call>>

(***************************************************************************)
(* main.c: initialize_modules                                              *)
(***************************************************************************)
InitAudio ==
    /\ pc = "init_audio"
    /\ \E snap \in Snapshots, ext \in AudioExt :
          LET r == audio_init(g_config, snap, ext)
          IN /\ g_audio' = r.ret
             /\ audio_obj' = r.audio
             /\ audio_trace' = [called |-> TRUE, requested |-> g_config.audio_driver,
                                snap |-> snap, selected |-> r.selected, probes |-> r.probes,
                                attempts |-> r.attempts, reconfigured |-> r.reconfigured,
                                ret |-> r.ret, detected |-> r.audio.detected_driver]
             /\ IF r.ret = NULL THEN Fail ELSE pc' = "init_synth" /\ ret' = ret
    /\ UNCHANGED <<midi_thread, lib_call, fs, handlers, g_running, g_reload_config, g_config, g_synth, g_midi,
                   synth_obj, midi_obj, cleanup_i, entered_loop, midi_attempts,
                   last_reload, hup_pending, iter_reloads>>

InitSynth ==
    /\ pc = "init_synth"
    /\ \E loadable \in SUBSET SfPaths, ext \in SynthExt :
          LET r == synth_init("g_config", g_config, fs, loadable, ext)
          IN /\ g_synth' = r.ret
             /\ synth_obj' = r.synth
             /\ IF r.ret = NULL THEN Fail ELSE pc' = "init_midi" /\ ret' = ret
    /\ audio_trace' = NoTrace
    /\ UNCHANGED <<midi_thread, lib_call, fs, handlers, g_running, g_reload_config, g_config, g_audio, g_midi,
                   audio_obj, midi_obj, cleanup_i, entered_loop, midi_attempts,
                   last_reload, hup_pending, iter_reloads>>

InitMidi ==
    /\ pc = "init_midi"
    /\ \E fail_at \in {"none"} \cup StepsOf(AlsaInitSteps) \cup StepsOf(JackInitSteps) :
          LET r == initialize_midi(g_config.midi_driver, fail_at)
          IN /\ g_midi' = r.g_midi
             /\ midi_obj' = r.midi
             /\ midi_attempts' = r.attempts
             /\ midi_thread' = IF r.g_midi = NULL THEN midi_thread
                               ELSE [NoThread EXCEPT
                                        !.pc = IF r.midi.thread = "running" THEN "while" ELSE "none",
                                        !.synth = g_synth]
             /\ IF r.ret < 0 THEN Fail /\ entered_loop' = entered_loop
                ELSE pc' = "loop_check" /\ ret' = ret /\ entered_loop' = TRUE
    /\ UNCHANGED <<lib_call, fs, handlers, g_running, g_reload_config, g_config, g_audio, g_synth,
                   audio_obj, synth_obj, cleanup_i, audio_trace, last_reload,
                   hup_pending, iter_reloads>>

(***************************************************************************)
(* main.c: main_loop                                                       *)
(***************************************************************************)
(* Variant: the loop condition does not read g_running. *)
LoopCheck_forever ==
    /\ pc = "loop_check"
    /\ pc' = "loop_reload_test"
    /\ iter_reloads' = 0
    /\ UNCHANGED <<midi_thread, lib_call, fs, handlers, g_running, g_reload_config, g_config, g_audio, g_synth,
                   g_midi, audio_obj, synth_obj, midi_obj, ret, cleanup_i, entered_loop,
                   audio_trace, midi_attempts, last_reload, hup_pending>>

LoopCheck ==
    /\ pc = "loop_check"
    /\ pc' = IF g_running # 0 THEN "loop_reload_test" ELSE "cleanup"
    /\ iter_reloads' = 0
    /\ UNCHANGED <<midi_thread, lib_call, fs, handlers, g_running, g_reload_config, g_config, g_audio, g_synth,
                   g_midi, audio_obj, synth_obj, midi_obj, ret, cleanup_i, entered_loop,
                   audio_trace, midi_attempts, last_reload, hup_pending>>

LoopReloadTest ==
    /\ pc = "loop_reload_test"
    /\ pc' = IF g_reload_config # 0 THEN "loop_clear" ELSE "loop_process"
    /\ UNCHANGED <<midi_thread, fs, handlers, g_running, g_reload_config, g_config, g_audio, g_synth,
                   g_midi, audio_obj, synth_obj, midi_obj, ret, cleanup_i, entered_loop,
                   audio_trace, midi_attempts, last_reload, hup_pending, iter_reloads, lib_call>>

LoopClear ==
    /\ pc = "loop_clear"
    /\ g_reload_config' = 0
    /\ hup_pending' = 0
    /\ last_reload' = [NoReload EXCEPT !.requests = hup_pending]
    /\ pc' = "reload"
    /\ UNCHANGED <<midi_thread, lib_call, fs, handlers, g_running, g_config, g_audio, g_synth,
                   g_midi, audio_obj, synth_obj, midi_obj, ret, cleanup_i, entered_loop,
                   audio_trace, midi_attempts, iter_reloads>>

(* Variant: the pending flag is cleared when the reload cycle ends. *)
Reload_clears_flag ==
    /\ pc = "reload"
    /\ \E p \in FilePairs[fs] :
          \E r \in {reload_configuration(g_config, g_synth, synth_obj, fs, p[1], p[2])} :
             /\ g_config' = r.config
             /\ synth_obj' = r.synth
             /\ last_reload' = [result |-> r.result, new_config |-> r.new_config,
                                requests |-> last_reload.requests]
    /\ iter_reloads' = iter_reloads + 1
    /\ g_reload_config' = 0
    /\ pc' = "loop_process"
    /\ UNCHANGED <<midi_thread, lib_call, fs, handlers, g_running, g_audio, g_synth,
                   g_midi, audio_obj, midi_obj, ret, cleanup_i, entered_loop,
                   audio_trace, midi_attempts, hup_pending>>

ReloadWith(pairs) ==
    /\ pc = "reload"
    /\ \E p \in pairs :
          \E r \in {reload_configuration(g_config, g_synth, synth_obj, fs, p[1], p[2])} :
             /\ g_config' = r.config
             /\ synth_obj' = r.synth
             /\ last_reload' = [result |-> r.result, new_config |-> r.new_config,
                                requests |-> last_reload.requests]
    /\ iter_reloads' = iter_reloads + 1
    /\ pc' = "loop_process"
    /\ UNCHANGED <<midi_thread, lib_call, fs, handlers, g_running, g_reload_config, g_audio, g_synth,
                   g_midi, audio_obj, midi_obj, ret, cleanup_i, entered_loop,
                   audio_trace, midi_attempts, hup_pending>>

Reload == ReloadWith(FilePairs[fs])

LoopProcess ==
    /\ pc = "loop_process"
    /\ LET r == IF g_config.midi_driver = MIDI_DRIVER_JACK
                THEN midi_jack_process_events(midi_obj)
                ELSE midi_alsa_process_events(midi_obj)
       IN pc' = IF r < 0 THEN "cleanup" ELSE "loop_check"
    /\ last_reload' = NoReload
    /\ UNCHANGED <<midi_thread, lib_call, fs, handlers, g_running, g_reload_config, g_config, g_audio, g_synth,
                   g_midi, audio_obj, synth_obj, midi_obj, ret, cleanup_i, entered_loop,
                   audio_trace, midi_attempts, hup_pending, iter_reloads>>

(***************************************************************************)
(* main.c: cleanup_modules, one statement per step, then exit              *)
(***************************************************************************)
Cleanup ==
    /\ pc = "cleanup"
    /\ cleanup_i <= Len(CleanupSteps)
    /\ LET st == CleanupSteps[cleanup_i]
       IN /\ midi_obj' = IF st = "midi_cleanup" /\ g_midi # NULL
                         THEN IF g_config.midi_driver = MIDI_DRIVER_JACK
                              THEN midi_jack_cleanup(midi_obj)
                              ELSE midi_alsa_cleanup(midi_obj)
                         ELSE midi_obj
          /\ g_midi' = IF st = "g_midi_null" THEN NULL ELSE g_midi
          /\ synth_obj' = IF st = "synth_cleanup" /\ g_synth # NULL
                          THEN synth_cleanup(synth_obj) ELSE synth_obj
          /\ g_synth' = IF st = "g_synth_null" THEN NULL ELSE g_synth
          /\ audio_obj' = IF st = "audio_cleanup" /\ g_audio # NULL
                          THEN audio_cleanup(audio_obj) ELSE audio_obj
          /\ g_audio' = IF st = "g_audio_null" THEN NULL ELSE g_audio
          /\ g_config' = IF st = "config_cleanup" THEN config_cleanup(g_config) ELSE g_config
          /\ midi_thread' = IF st = "midi_cleanup" /\ g_midi # NULL /\ midi_obj.thread = "running"
                            THEN [midi_thread EXCEPT !.pc = "returned"]
                            ELSE midi_thread
    /\ cleanup_i' = cleanup_i + 1
    /\ pc' = IF cleanup_i = Len(CleanupSteps) THEN "stopped" ELSE "cleanup"
    /\ audio_trace' = NoTrace
    /\ last_reload' = NoReload
    /\ UNCHANGED <<lib_call, fs, handlers, g_running, g_reload_config, ret, entered_loop,
                   midi_attempts, hup_pending, iter_reloads>>

(***************************************************************************)
(* main.c: signal_handler, one action per signal.  A signal is delivered   *)
(* to the handler while the handlers are installed and the process runs.   *)
(***************************************************************************)
Deliverable == handlers /\ pc # "stopped"

SigTerm ==
    /\ Deliverable
    /\ g_running' = 0
    /\ UNCHANGED <<midi_thread, pc, fs, handlers, g_reload_config, g_config, g_audio, g_synth, g_midi,
                   audio_obj, synth_obj, midi_obj, ret, cleanup_i, entered_loop,
                   audio_trace, midi_attempts, last_reload, hup_pending, iter_reloads, lib_call>>

(* Variant: the handler runs the reload itself. *)
SigHup_reloads ==
    /\ Deliverable
    /\ hup_pending < MaxHup
    /\ hup_pending' = hup_pending + 1
    /\ \E p \in FilePairs[fs] :
          LET r == reload_configuration(g_config, g_synth, synth_obj, fs, p[1], p[2])
          IN g_config' = r.config /\ synth_obj' = r.synth
    /\ UNCHANGED <<midi_thread, lib_call, pc, fs, handlers, g_running, g_reload_config, g_audio, g_synth, g_midi,
                   audio_obj, midi_obj, ret, cleanup_i, entered_loop,
                   audio_trace, midi_attempts, last_reload, iter_reloads>>

SigHup ==
    /\ Deliverable
    /\ hup_pending < MaxHup
    /\ g_reload_config' = 1
    /\ hup_pending' = hup_pending + 1
    /\ UNCHANGED <<midi_thread, lib_call, pc, fs, handlers, g_running, g_config, g_audio, g_synth, g_midi,
                   audio_obj, synth_obj, midi_obj, ret, cleanup_i, entered_loop,
                   audio_trace, midi_attempts, last_reload, iter_reloads>>

(* traced: whether the handler's run is written to lib_call, with the     *)
(* line it logs and the state it ran in.  Between synth_cleanup and        *)
(* g_synth = NULL the handler reads the fields of a freed synth, and       *)
(* either line can come out.                                               *)
SigUsr1Handler(traced) ==
    /\ Deliverable
    /\ IF g_synth # NULL
       THEN synth_obj' = synth_get_status(synth_obj)
       ELSE synth_obj' = synth_obj
    /\ \E line \in IF g_synth = NULL THEN {"Synthesizer not initialized"}
                    ELSE IF synth_obj.state = "alive" THEN {"Synth status"}
                    ELSE {"Synth status", "Unable to retrieve synthesizer status"} :
          lib_call' = IF ~traced THEN lib_call
                      ELSE [fn |-> "SIGUSR1", logged |-> line,
                            at |-> pc, synth |-> synth_obj, midi |-> midi_obj]
    /\ UNCHANGED <<midi_thread, pc, fs, handlers, g_running, g_reload_config, g_config, g_audio, g_synth,
                   g_midi, audio_obj, midi_obj, ret, cleanup_i, entered_loop,
                   audio_trace, midi_attempts, last_reload, hup_pending, iter_reloads>>

SigUsr1 == SigUsr1Handler(FALSE)

(* traced: whether the handler's run is written to lib_call, with the     *)
(* engine calls its panic loop made when channels of failures fail.        *)
(* Between midi_*_cleanup and g_midi = NULL the handler is given a freed   *)
(* transport, and between synth_cleanup and g_synth = NULL a freed synth:  *)
(* the initialized flag it reads from the freed object may read as set or  *)
(* as clear (reads_set).  Read as set on a freed transport, the panic runs *)
(* on the synth, which is still alive; read as set on a freed synth, the   *)
(* loop calls an engine that is gone and every call fails.                 *)
SigUsr2Handler(failures, traced) ==
    /\ Deliverable
    /\ synth_obj.panics < MaxPanic
    /\ \E reads_set \in BOOLEAN, failed \in failures :
          LET freed_midi == g_midi # NULL /\ midi_obj.state # "open"
              freed_synth == g_midi = NULL /\ g_synth # NULL /\ synth_obj.state # "alive"
              after == IF freed_midi
                       THEN IF reads_set THEN synth_all_notes_off(synth_obj) ELSE synth_obj
                       ELSE IF g_midi # NULL
                       THEN IF g_config.midi_driver = MIDI_DRIVER_JACK
                            THEN midi_jack_disconnect_all(midi_obj, synth_obj)
                            ELSE midi_alsa_disconnect_all(midi_obj, synth_obj)
                       ELSE IF g_synth # NULL
                       THEN synth_all_notes_off(synth_obj)
                       ELSE synth_obj
          IN /\ synth_obj' = after
             /\ lib_call' = IF ~traced THEN lib_call
                            ELSE [fn |-> "SIGUSR2",
                                  transport |-> IF g_midi # NULL THEN midi_obj.kind ELSE "none",
                                  open |-> g_midi # NULL /\ midi_obj.state = "open",
                                  synth |-> IF g_synth # NULL THEN synth_obj.state ELSE "none",
                                  failed |-> IF freed_synth THEN 0..15 ELSE failed,
                                  engine |-> IF after.panics # synth_obj.panics
                                             THEN AllNotesOffLoop(0, failed)
                                             ELSE IF freed_synth /\ reads_set
                                             THEN AllNotesOffLoop(0, 0..15)
                                             ELSE <<>>]
    /\ UNCHANGED <<midi_thread, pc, fs, handlers, g_running, g_reload_config, g_config, g_audio, g_synth,
                   g_midi, audio_obj, midi_obj, ret, cleanup_i, entered_loop,
                   audio_trace, midi_attempts, last_reload, hup_pending, iter_reloads>>

SigUsr2 == SigUsr2Handler({{}}, FALSE)

(***************************************************************************)
(* Specifications                                                          *)
(***************************************************************************)
NextModules ==
    \/ InitAudio \/ InitSynth \/ InitMidi
    \/ LoopCheck \/ LoopReloadTest \/ LoopClear \/ Reload \/ LoopProcess
    \/ Cleanup
    \/ SigTerm \/ SigHup \/ SigUsr1 \/ SigUsr2

Next ==
    \/ LoadConfiguration \/ ConfigPrint \/ CheckSoundfont \/ Daemonize \/ SetupSignals
    \/ NextModules

Spec == Init /\ [][Next]_vars

SpecModules == InitModules /\ [][NextModules]_vars

(***************************************************************************)
(* The main thread is scheduled fairly: every call it makes returns        *)
(* (midi_*_process_events sleeps at most its timeout, pthread_join returns *)
(* once the MIDI thread has seen running = 0) and its next statement is    *)
(* then executed.  Signals carry no fairness.                              *)
(***************************************************************************)
MainModules ==
    \/ InitAudio \/ InitSynth \/ InitMidi
    \/ LoopCheck \/ LoopReloadTest \/ LoopClear \/ Reload \/ LoopProcess
    \/ Cleanup

(* The lifecycle of the daemon: the main thread with the two signals that  *)
(* steer it (termination, reload), from the call of initialize_modules,    *)
(* with the ALSA audio driver configured and each MIDI driver.             *)
InitLifecycle ==
    /\ pc = "init_audio"
    /\ fs = SfPaths
    /\ handlers = TRUE
    /\ \E d \in MidiDrivers :
          g_config = [config_validate(config_init_defaults(SfPaths), SfPaths).config
                         EXCEPT !.midi_driver = d, !.audio_driver = AUDIO_DRIVER_ALSA]
    /\ InitCommon

NextLifecycle == MainModules \/ SigTerm \/ SigHup

SpecLifecycle == InitLifecycle /\ [][NextLifecycle]_vars /\ WF_vars(MainModules)

(***************************************************************************)
(* Audio driver selection                                                  *)
(***************************************************************************)
Priority == <<AUDIO_DRIVER_JACK, AUDIO_DRIVER_PIPEWIRE, AUDIO_DRIVER_PULSEAUDIO,
              AUDIO_DRIVER_ALSA>>

Available(snap, d) ==
    CASE d = AUDIO_DRIVER_JACK -> snap.jack
      [] d = AUDIO_DRIVER_PIPEWIRE -> snap.pipewire
      [] d = AUDIO_DRIVER_PULSEAUDIO -> snap.pulseaudio
      [] d = AUDIO_DRIVER_ALSA -> TRUE
      [] OTHER -> FALSE

(* C1: when the configured backend is auto, detect_audio_driver probes in  *)
(* the order JACK, PipeWire, PulseAudio and returns the first backend of   *)
(* the priority list JACK, PipeWire, PulseAudio, ALSA that is available;   *)
(* the result is a concrete backend, never auto, and it is ALSA when no    *)
(* sound server is available.                                              *)
C1_DetectPriorityOrder ==
    (audio_trace.called /\ audio_trace.requested = AUDIO_DRIVER_AUTO) =>
        /\ audio_trace.selected # AUDIO_DRIVER_AUTO
        /\ \E k \in 1..3 :
              audio_trace.probes = SubSeq(<<"jack", "pipewire", "pulseaudio">>, 1, k)
        /\ \E i \in 1..Len(Priority) :
              /\ audio_trace.selected = Priority[i]
              /\ Available(audio_trace.snap, Priority[i])
              /\ \A j \in 1..(i - 1) : ~Available(audio_trace.snap, Priority[j])
        /\ (~audio_trace.snap.jack /\ ~audio_trace.snap.pipewire
            /\ ~audio_trace.snap.pulseaudio => audio_trace.selected = AUDIO_DRIVER_ALSA)

C1_Witness ==
    /\ audio_trace.called /\ audio_trace.requested = AUDIO_DRIVER_AUTO
    /\ ~audio_trace.snap.jack /\ audio_trace.snap.pipewire /\ audio_trace.snap.pulseaudio
    /\ audio_trace.selected = AUDIO_DRIVER_PIPEWIRE

(* C2 as stated: after a failed activation of a backend other than ALSA    *)
(* the selector always reconfigures for ALSA and makes a second attempt.   *)
C2_AlwaysRetries ==
    (audio_trace.called /\ Len(audio_trace.attempts) >= 1
     /\ ~audio_trace.attempts[1].ok /\ audio_trace.attempts[1].driver # AUDIO_DRIVER_ALSA) =>
        /\ audio_trace.reconfigured # "no"
        /\ Len(audio_trace.attempts) = 2

(* C2: audio_init makes at most two activation attempts and the second is  *)
(* always for ALSA.  A failed first attempt for a backend other than ALSA  *)
(* is followed by a reconfiguration for ALSA and, exactly when that        *)
(* reconfiguration succeeds, by one more attempt; a failed first attempt   *)
(* for ALSA is followed by no reconfiguration and no retry; audio_init     *)
(* returns NULL when the last attempt made failed.                         *)
C2_FallbackOnce ==
    audio_trace.called =>
        LET a == audio_trace.attempts
            n == Len(audio_trace.attempts)
        IN /\ n <= 2
           /\ n = 2 => a[2].driver = AUDIO_DRIVER_ALSA /\ ~a[1].ok
                       /\ a[1].driver # AUDIO_DRIVER_ALSA
           /\ (n >= 1 /\ ~a[1].ok /\ a[1].driver # AUDIO_DRIVER_ALSA) =>
                  /\ audio_trace.reconfigured \in {"ok", "failed"}
                  /\ (n = 2) = (audio_trace.reconfigured = "ok")
           /\ (n >= 1 /\ ~a[1].ok /\ a[1].driver = AUDIO_DRIVER_ALSA) =>
                  n = 1 /\ audio_trace.reconfigured = "no" /\ audio_trace.ret = NULL
           /\ (n >= 1 /\ ~a[n].ok) => audio_trace.ret = NULL
           /\ (n >= 1 /\ a[n].ok) => audio_trace.ret # NULL /\ audio_trace.detected = a[n].driver

C2_Witness ==
    /\ audio_trace.called
    /\ Len(audio_trace.attempts) = 2
    /\ audio_trace.attempts[1].driver = AUDIO_DRIVER_JACK
    /\ ~audio_trace.attempts[2].ok
    /\ audio_trace.ret = NULL

(* C3: an explicit backend (not auto) is selected as configured and no     *)
(* probe is run; the first activation attempt is for that backend, and the *)
(* backend in use differs from it only after that attempt has failed.      *)
C3_ExplicitVerbatim ==
    (audio_trace.called /\ audio_trace.requested # AUDIO_DRIVER_AUTO) =>
        /\ audio_trace.selected = audio_trace.requested
        /\ audio_trace.probes = <<>>
        /\ Len(audio_trace.attempts) >= 1 =>
               audio_trace.attempts[1].driver = audio_trace.requested
        /\ audio_trace.detected \notin {audio_trace.requested, AUDIO_DRIVER_AUTO} =>
               Len(audio_trace.attempts) = 2 /\ ~audio_trace.attempts[1].ok

C3_Witness ==
    /\ audio_trace.called /\ audio_trace.requested = AUDIO_DRIVER_JACK
    /\ ~audio_trace.snap.jack /\ audio_trace.snap.pipewire
    /\ audio_trace.selected = AUDIO_DRIVER_JACK
    /\ Len(audio_trace.attempts) = 1 /\ audio_trace.ret # NULL

(***************************************************************************)
(* MIDI initialisation                                                     *)
(***************************************************************************)
LoopPcs == {"loop_check", "loop_reload_test", "loop_clear", "reload", "loop_process"}

(* C4: a failed MIDI initialisation is fatal.  At most one MIDI transport  *)
(* is ever initialised, and it is the configured one; the main loop is     *)
(* entered only with an open transport of the configured kind; when        *)
(* initialize_modules ends without a MIDI handle (the transport failed, or *)
(* the driver is alsa_raw or unknown) main goes to cleanup with a failure  *)
(* exit code, and from cleanup the main loop is never entered.             *)
C4_MidiInitFailureFatal ==
    /\ [](/\ Len(midi_attempts) <= 1
          /\ (Len(midi_attempts) = 1 /\ pc # "stopped") =>
                 midi_attempts[1] = g_config.midi_driver
          /\ entered_loop => Len(midi_attempts) = 1
          /\ pc \in LoopPcs =>
                 /\ entered_loop /\ g_midi # NULL /\ midi_obj.state = "open"
                 /\ g_config.midi_driver \in {MIDI_DRIVER_ALSA_SEQ, MIDI_DRIVER_JACK}
          /\ (pc \in {"cleanup", "stopped"} /\ ~entered_loop) => ret = EXIT_FAILURE)
    /\ [][/\ (pc = "init_midi" /\ pc' # "init_midi" /\ g_midi' = NULL) =>
                 pc' = "cleanup" /\ ret' = EXIT_FAILURE /\ ~entered_loop'
          /\ pc \in {"cleanup", "stopped"} =>
                 pc' \in {"cleanup", "stopped"} /\ entered_loop' = entered_loop]_vars

C4_Witness ==
    /\ pc = "cleanup" /\ cleanup_i = 1
    /\ g_synth # NULL /\ g_midi = NULL
    /\ g_config.midi_driver = MIDI_DRIVER_ALSA_SEQ
    /\ midi_attempts = <<MIDI_DRIVER_ALSA_SEQ>>
    /\ ~entered_loop /\ ret = EXIT_FAILURE

(***************************************************************************)
(* Configuration reload                                                    *)
(***************************************************************************)
NonHot(c) == [f \in (DOMAIN c) \ HotFields |-> c[f]]

ReloadStep == pc = "reload" /\ pc' # "reload"

(* C5: a reload whose scratch configuration fails to load or to validate   *)
(* changes no field of the live configuration and nothing of the           *)
(* synthesizer; the daemon keeps running and the main loop goes on to      *)
(* process MIDI events.                                                    *)
C5_FailedReloadKeepsLive ==
    [][(ReloadStep /\ last_reload'.result \in {"load_failed", "invalid"}) =>
          /\ g_config' = g_config
          /\ synth_obj' = synth_obj
          /\ g_running' = g_running
          /\ <<g_audio, g_synth, g_midi>>' = <<g_audio, g_synth, g_midi>>
          /\ pc' = "loop_process"]_vars

C5_Witness ==
    /\ pc = "loop_process"
    /\ last_reload.result = "invalid"
    /\ last_reload.new_config.gain # g_config.gain
    /\ g_running = 1

(* C6: a successful reload changes no field of the live configuration      *)
(* other than log level, gain, chorus and reverb, and leaves the audio,    *)
(* synthesizer and MIDI handles, the audio and MIDI objects and the        *)
(* record of backend selection as they were.                               *)
C6_ReloadOnlyHotFields ==
    [][(ReloadStep /\ last_reload'.result = "ok") =>
          /\ NonHot(g_config') = NonHot(g_config)
          /\ <<g_audio, g_synth, g_midi>>' = <<g_audio, g_synth, g_midi>>
          /\ <<audio_obj, midi_obj>>' = <<audio_obj, midi_obj>>
          /\ synth_obj'.audio_driver = synth_obj.audio_driver
          /\ synth_obj'.state = synth_obj.state
          /\ <<audio_trace, midi_attempts>>' = <<audio_trace, midi_attempts>>]_vars

C6_Witness ==
    /\ pc = "loop_process"
    /\ last_reload.result = "ok"
    /\ last_reload.new_config.audio_driver = AUDIO_DRIVER_ALSA
    /\ g_config.audio_driver = AUDIO_DRIVER_AUTO
    /\ audio_obj.detected_driver = AUDIO_DRIVER_JACK

(* C7 as stated: a successful reload whose gain, chorus or reverb differs  *)
(* from the live value leaves the new value both in the live configuration *)
(* and in the synthesizer.                                                 *)
C7_ReloadReachesSynth ==
    [][(ReloadStep /\ last_reload'.result = "ok" /\ g_synth # NULL) =>
          LET n == last_reload'.new_config
          IN /\ n.gain # g_config.gain =>
                    g_config'.gain = n.gain /\ synth_obj'.gain = n.gain
             /\ (n.chorus_enabled # g_config.chorus_enabled
                 \/ n.chorus_level # g_config.chorus_level) =>
                    /\ g_config'.chorus_enabled = n.chorus_enabled
                    /\ g_config'.chorus_level = n.chorus_level
                    /\ synth_obj'.chorus_on = n.chorus_enabled
                    /\ n.chorus_enabled => synth_obj'.chorus_level = n.chorus_level
             /\ (n.reverb_enabled # g_config.reverb_enabled
                 \/ n.reverb_level # g_config.reverb_level) =>
                    /\ g_config'.reverb_enabled = n.reverb_enabled
                    /\ g_config'.reverb_level = n.reverb_level
                    /\ synth_obj'.reverb_on = n.reverb_enabled
                    /\ n.reverb_enabled => synth_obj'.reverb_level = n.reverb_level]_vars

(***************************************************************************)
(* Signals                                                                 *)
(***************************************************************************)
(* C8: the SIGHUP handler sets g_reload_config and touches nothing else of *)
(* the program; the hot fields of the live configuration change only in    *)
(* the reload step of the main loop; every reload step follows a clearing  *)
(* of the flag, which consumes all requests delivered so far; and no loop  *)
(* iteration runs more than one reload.                                    *)
C8_ReloadOnlyInMainLoop ==
    /\ [](iter_reloads <= 1)
    /\ [][/\ SigHup =>
                /\ g_reload_config' = 1
                /\ UNCHANGED <<midi_thread, pc, g_running, g_config, g_audio, g_synth, g_midi, audio_obj,
                               synth_obj, midi_obj, last_reload, iter_reloads>>
          /\ (g_config' # g_config /\ pc \in LoopPcs) => pc = "reload"
          /\ (pc \notin LoopPcs /\ handlers /\ pc # "cleanup") => g_config' = g_config
          /\ iter_reloads' > iter_reloads => pc = "reload" /\ last_reload'.result # "none"
          /\ pc = "loop_clear" /\ pc' # pc =>
                g_reload_config' = 0 /\ hup_pending' = 0 /\ pc' = "reload"
          /\ pc' = "reload" /\ pc # "reload" => pc = "loop_clear"]_vars

C8_Witness ==
    /\ pc = "loop_process"
    /\ last_reload.result = "ok"
    /\ last_reload.requests = 2
    /\ iter_reloads = 1
    /\ g_reload_config = 0

(* C9 as stated: no signal handler changes the synthesizer, the MIDI       *)
(* transport or the configuration; a handler only sets g_running or        *)
(* g_reload_config.                                                        *)
C9_HandlersOnlySetFlags ==
    [][(SigTerm \/ SigHup \/ SigUsr1 \/ SigUsr2) =>
          UNCHANGED <<midi_thread, g_config, synth_obj, midi_obj, audio_obj>>]_vars

(***************************************************************************)
(* Shutdown                                                                *)
(***************************************************************************)
(* C10: cleanup_modules closes the MIDI transport, then destroys the       *)
(* synthesizer, then closes the audio output: the synthesizer is never     *)
(* destroyed while the MIDI transport is open and the audio output is      *)
(* never closed while the synthesizer is alive.                            *)
C10_TeardownOrder ==
    /\ ~(synth_obj.state = "destroyed" /\ midi_obj.state = "open")
    /\ ~(audio_obj.state = "closed" /\ synth_obj.state = "alive")
    /\ ~(audio_obj.state = "closed" /\ midi_obj.state = "open")

C10_Witness ==
    /\ pc = "stopped"
    /\ entered_loop
    /\ midi_obj.state = "closed"
    /\ synth_obj.state = "destroyed"
    /\ audio_obj.state = "closed"

(***************************************************************************)
(* Lifecycle                                                               *)
(***************************************************************************)
(* C11: once SIGTERM/SIGINT has cleared g_running it is never set again;   *)
(* the main thread never goes from cleanup or the stopped state back to    *)
(* initialisation or the loop; and with the main thread scheduled fairly a *)
(* cleared g_running leads to the stopped state, whether it was cleared    *)
(* during initialisation, in the loop or during a reload.                  *)
C11_TerminationIsFinal ==
    /\ [][/\ g_running = 0 => g_running' = 0
          /\ pc = "cleanup" => pc' \in {"cleanup", "stopped"}
          /\ pc = "stopped" => pc' = "stopped"
          /\ (g_running = 0 /\ pc = "loop_check") => pc' \in {"loop_check", "cleanup"}]_vars
    /\ (g_running = 0) ~> (pc = "stopped")

C11_Witness ==
    /\ pc = "stopped"
    /\ g_running = 0
    /\ entered_loop
    /\ ret = EXIT_SUCCESS

(* C12: a startup step that ends in an error (configuration, soundfont     *)
(* check, daemonize / privileges, signal handlers, audio, synthesizer,     *)
(* MIDI) sends main to cleanup with EXIT_FAILURE and the loop is not       *)
(* entered; the only startup path to cleanup that keeps EXIT_SUCCESS is    *)
(* the configuration test, taken with a configuration that passed          *)
(* validation; a step is passed only with its result in hand; in the loop  *)
(* the exit code is EXIT_SUCCESS; and when the process has stopped no      *)
(* module is left initialised and every handle is NULL.                    *)
StartupPcs == {"load_configuration", "check_soundfont", "daemonize", "setup_signals",
               "init_audio", "init_synth", "init_midi"}

BoundedFields == {"sample_rate", "buffer_size", "audio_periods", "gain", "polyphony",
                  "chorus_level", "reverb_level"}

ValidatedFields == BoundedFields \cup {"client_name"}

FieldValues(f) ==
    CASE f = "sample_rate" -> {7999, 8000, 192000, 192001}
      [] f = "buffer_size" -> {63, 64, 8192, 8193}
      [] f = "audio_periods" -> {1, 2, 8, 9}
      [] f = "polyphony" -> {15, 16, 4096, 4097}
      [] f = "gain" -> {0 - 1, 0, 200, 201, NaN}
      [] f \in {"chorus_level", "reverb_level"} -> {0 - 1, 0, 1000, 1001, NaN}
      [] f = "client_name" -> {"", "synth"}

RECURSIVE Edited(_, _)
Edited(configs, n) ==
    IF n = 0 THEN configs
    ELSE Edited(configs \cup UNION {{[c EXCEPT ![f] = v] : v \in FieldValues(f), c \in configs} :
                                        f \in ValidatedFields},
                n - 1)

SoundfontEntries == {[path |-> p, enabled |-> e] : p \in SfPaths \cup {""}, e \in BOOLEAN}

AllBad(c) == [c EXCEPT !.sample_rate = 1, !.buffer_size = 10, !.gain = 201, !.polyphony = 0]

ValidateInputs(f) ==
    LET d == config_init_defaults(f)
    IN Edited({d}, MaxEdits)
       \cup {[c EXCEPT !.soundfonts = l] : c \in {d, AllBad(d)},
                                          l \in SeqsUpTo(SoundfontEntries, MaxSoundfonts)}

InitValidate ==
    /\ InitCommon
    /\ pc = "library"
    /\ handlers = FALSE
    /\ fs \in SUBSET SfPaths
    /\ g_config \in ValidateInputs(fs)

CfgValidate ==
    /\ pc = "library"
    /\ LET r == config_validate(g_config, fs)
       IN /\ g_config' = r.config
          /\ lib_call' = [fn |-> "config_validate", before |-> g_config, files |-> <<>>,
                          ret |-> r.ret,
                          again |-> lib_call.fn = "config_validate" /\ lib_call.ret >= 0]
    /\ UNCHANGED <<midi_thread, pc, fs, handlers, g_running, g_reload_config, g_audio, g_synth, g_midi,
                   audio_obj, synth_obj, midi_obj, ret, cleanup_i, entered_loop, audio_trace,
                   midi_attempts, last_reload, hup_pending, iter_reloads>>

SpecValidate == InitValidate /\ [][CfgValidate]_vars

(* C13: config_validate returns its fatal result exactly when no soundfont *)
(* entry is both enabled and readable, whatever disabled or unreadable     *)
(* entries the list holds besides; numeric fields out of range never make  *)
(* the result fatal by themselves.                                         *)
C13_FatalIffNoUsableSoundfont ==
    lib_call.fn = "config_validate" =>
        LET sfs == lib_call.before.soundfonts
        IN (lib_call.ret < 0) <=>
              ~ \E i \in 1..Len(sfs) : sfs[i].enabled /\ sfs[i].path \in fs

C13_Witness ==
    /\ lib_call.fn = "config_validate"
    /\ lib_call.ret >= 2
    /\ lib_call.before.sample_rate < 8000
    /\ lib_call.before.buffer_size < 64
    /\ Len(lib_call.before.soundfonts) = 2
    /\ lib_call.before.soundfonts[1].enabled
    /\ lib_call.before.soundfonts[1].path \notin fs
    /\ lib_call.before.soundfonts[2].path \in fs

(***************************************************************************)
(* The documented bound and default of each bounded field (floats in       *)
(* hundredths).  A NaN lies in no interval.                                *)
(***************************************************************************)
Bound(f) ==
    CASE f = "sample_rate" -> [lo |-> 8000, hi |-> 192000, default |-> CONFIG_DEFAULT_SAMPLE_RATE]
      [] f = "buffer_size" -> [lo |-> 64, hi |-> 8192, default |-> CONFIG_DEFAULT_BUFFER_SIZE]
      [] f = "audio_periods" -> [lo |-> 2, hi |-> 8, default |-> CONFIG_DEFAULT_AUDIO_PERIODS]
      [] f = "gain" -> [lo |-> 0, hi |-> 200, default |-> CONFIG_DEFAULT_GAIN]
      [] f = "polyphony" -> [lo |-> 16, hi |-> 4096, default |-> CONFIG_DEFAULT_POLYPHONY]
      [] f = "chorus_level" -> [lo |-> 0, hi |-> 1000, default |-> CONFIG_DEFAULT_CHORUS_LEVEL]
      [] f = "reverb_level" -> [lo |-> 0, hi |-> 1000, default |-> CONFIG_DEFAULT_REVERB_LEVEL]

InBound(f, x) == x # NaN /\ Bound(f).lo <= x /\ x <= Bound(f).hi

(* C14: config_validate replaces every bounded field (sample rate, buffer  *)
(* size, periods, gain, polyphony, chorus level, reverb level) that holds  *)
(* a value outside its documented bound by the documented default, leaves  *)
(* the bounded fields that are in range as they were, and the fix counter  *)
(* it returns has grown by exactly one for each correction made (the       *)
(* bounded fields, the empty client name, each soundfont entry disabled).  *)
C14_ValidateCorrectsEveryBoundedField ==
    lib_call.fn = "config_validate" =>
        LET b == lib_call.before
            corrected == {f \in BoundedFields : ~InBound(f, b[f])}
            renamed == IF b.client_name = "" THEN 1 ELSE 0
            disabled == {i \in 1..Len(b.soundfonts) :
                            b.soundfonts[i].enabled /\ ~g_config.soundfonts[i].enabled}
        IN /\ \A f \in BoundedFields :
                 g_config[f] = IF f \in corrected THEN Bound(f).default ELSE b[f]
           /\ lib_call.ret >= 0 =>
                 lib_call.ret = Cardinality(corrected) + renamed + Cardinality(disabled)

(* The same statement restricted to structures whose bounded fields hold   *)
(* numbers: the only departures from C14 are NaN values.                   *)
C14_NumbersOnly ==
    (\A f \in BoundedFields : lib_call.before[f] # NaN) => C14_ValidateCorrectsEveryBoundedField

(***************************************************************************)
(* config.h as a library, continued: a caller starts from                  *)
(* config_init_defaults and calls config_load_file, config_load and        *)
(* config_validate in any order, as tests/test_config.c does.  The files   *)
(* are absent, unreadable, empty, of one line, or one of the two files     *)
(* the test and the documentation use.                                     *)
(***************************************************************************)
CfgLines == {Line("sample_rate", Num("44100", 44100)),
             Line("sample_rate", Str("fast")),
             Line("buffer_size", Num("10", 10)),
             Line("gain", Num("1.2", 120)),
             Line("gain", Num("0.8", 80)),
             Line("gain", Num("3.0", 300)),
             Line("gain", EmptyValue),
             Line("gain", NanValue)}

CfgFiles ==
    {Absent, Unreadable, FileOf(<<>>)}
    \cup {FileOf(<<l>>) : l \in CfgLines}
    \cup {FileOf(<<Line("gain", Num("0.5", 50)), Line("sample_rate", Num("44100", 44100))>>),
          FileOf(<<Line("sample_rate", Num("44100", 44100)), Line("buffer_size", Num("10", 10))>>)}

InitConfig ==
    /\ InitCommon
    /\ pc = "library"
    /\ handlers = FALSE
    /\ fs \in SUBSET SfPaths
    /\ g_config = config_init_defaults(fs)

CfgLoadFileWith(files) ==
    /\ pc = "library"
    /\ \E file \in files :
          LET r == config_load_file(g_config, file)
          IN /\ g_config' = r.config
             /\ lib_call' = [fn |-> "config_load_file", before |-> g_config,
                             files |-> <<file>>, ret |-> r.ret]
    /\ UNCHANGED <<midi_thread, pc, fs, handlers, g_running, g_reload_config, g_audio, g_synth, g_midi,
                   audio_obj, synth_obj, midi_obj, ret, cleanup_i, entered_loop, audio_trace,
                   midi_attempts, last_reload, hup_pending, iter_reloads>>

CfgLoadFile == CfgLoadFileWith(CfgFiles)

CfgLoadWith(sysFiles, userFiles) ==
    /\ pc = "library"
    /\ \E sysFile \in sysFiles, userFile \in userFiles :
          LET r == config_load(g_config, sysFile, userFile)
          IN /\ g_config' = r.config
             /\ lib_call' = [fn |-> "config_load", before |-> g_config,
                             files |-> <<sysFile, userFile>>, ret |-> r.ret]
    /\ UNCHANGED <<midi_thread, pc, fs, handlers, g_running, g_reload_config, g_audio, g_synth, g_midi,
                   audio_obj, synth_obj, midi_obj, ret, cleanup_i, entered_loop, audio_trace,
                   midi_attempts, last_reload, hup_pending, iter_reloads>>

CfgLoad == CfgLoadWith(CfgFiles, CfgFiles \cup {NoFile})

NextConfig == CfgLoadFile \/ CfgLoad \/ CfgValidate

SpecConfig == InitConfig /\ [][NextConfig]_vars

(* C15: starting from config_init_defaults, after any sequence of          *)
(* config_load_file, config_load and config_validate calls the             *)
(* configuration has sample rate in [8000, 192000], buffer size in         *)
(* [64, 8192], periods in [2, 8], polyphony in [16, 4096] and gain in      *)
(* [0.0, 2.0].                                                             *)
C15_ConfigStaysInBounds ==
    \A f \in {"sample_rate", "buffer_size", "audio_periods", "polyphony", "gain"} :
        InBound(f, g_config[f])

(* Without the gain field the statement of C15 holds.                      *)
C15_IntegersInBounds ==
    \A f \in {"sample_rate", "buffer_size", "audio_periods", "polyphony"} :
        InBound(f, g_config[f])

(***************************************************************************)
(* What a layer says about a key: whether the file has a line with the     *)
(* key, and the field value its last such line yields.                     *)
(***************************************************************************)
Defines(file, k) == file.status = "ok" /\ \E i \in 1..Len(file.lines) : file.lines[i].key = k

Given(file, k) ==
    LET last == CHOOSE i \in 1..Len(file.lines) :
                    /\ file.lines[i].key = k
                    /\ \A j \in (i + 1)..Len(file.lines) : file.lines[j].key # k
    IN parse_config_line(lib_call.before, file.lines[last])[k]

NumericKeys == BoundedFields

IsNumber(v) == v.ok /\ v.s # "" /\ v.n # NaN

(* C17: config_load_file succeeds on a readable file, and a numeric key    *)
(* whose value is out of range or is not a number sets the field to the    *)
(* compiled-in default, whatever an earlier layer had stored, while an     *)
(* in-range value is stored as given.                                      *)
C17_BadNumberFallsBackToDefault ==
    (lib_call.fn = "config_load_file" /\ lib_call.files[1].status = "ok") =>
        /\ lib_call.ret = 0
        /\ \A k \in NumericKeys :
              Defines(lib_call.files[1], k) =>
                 LET file == lib_call.files[1]
                     last == CHOOSE i \in 1..Len(file.lines) :
                                /\ file.lines[i].key = k
                                /\ \A j \in (i + 1)..Len(file.lines) : file.lines[j].key # k
                     v == file.lines[last].val
                 IN g_config[k] = IF IsNumber(v) /\ InBound(k, v.n) THEN v.n
                                  ELSE Bound(k).default

(* The statement of C17 for the values that are numbers or are text that   *)
(* strtol and strtof do not read to its end.                               *)
C17_ExceptEmptyAndNaN ==
    (/\ lib_call.fn = "config_load_file"
     /\ \A i \in 1..Len(lib_call.files[1].lines) :
            lib_call.files[1].lines[i].val \notin {EmptyValue, NanValue})
        => C17_BadNumberFallsBackToDefault

(* C18: a missing configuration file is not an error.  config_load_file    *)
(* fails only when the file cannot be opened for a reason other than its   *)
(* not existing, and config_load reports success, with the defaults or the *)
(* earlier layer intact, when the system file, the user file or both do    *)
(* not exist.                                                              *)
C18_MissingFileIsNotAnError ==
    /\ lib_call.fn = "config_load_file" =>
          /\ lib_call.ret < 0 => lib_call.files[1].status = "unreadable"
          /\ lib_call.files[1].status = "absent" => g_config = lib_call.before
    /\ (/\ lib_call.fn = "config_load"
        /\ "absent" \in {lib_call.files[1].status, lib_call.files[2].status}
        /\ "unreadable" \notin {lib_call.files[1].status, lib_call.files[2].status}) =>
          /\ lib_call.ret = 0
          /\ lib_call.files[1].status = "absent" =>
                g_config = config_load_file(lib_call.before, lib_call.files[2]).config
          /\ lib_call.files[2].status = "absent" =>
                g_config = config_load_file(lib_call.before, lib_call.files[1]).config

(* What does hold: a missing file leaves the structure as it was, and      *)
(* config_load succeeds as soon as one of the two files could be read.     *)
C18_MissingLayerLeavesConfig ==
    /\ (lib_call.fn = "config_load_file" /\ lib_call.files[1].status # "ok") =>
          lib_call.ret = 0 - 1 /\ g_config = lib_call.before
    /\ lib_call.fn = "config_load" =>
          /\ lib_call.ret = 0 <=> "ok" \in {lib_call.files[1].status, lib_call.files[2].status}
          /\ lib_call.ret # 0 => g_config = lib_call.before

(***************************************************************************)
(* Startup with configuration files that name soundfonts: every file holds *)
(* at most MaxSoundfonts soundfont lines, so that with the system and the  *)
(* user layer the list has several entries, readable or not, in any order. *)
(* The run is followed from load_configuration to the end of               *)
(* initialize_modules, or through cleanup when a step fails.               *)
(***************************************************************************)
SoundfontLines == {Line("soundfont", Str(p)) : p \in SfPaths}

SoundfontFiles == {Absent} \cup {FileOf(q) : q \in SeqsUpTo(SoundfontLines, MaxSoundfonts)}

LoadSoundfontConfiguration ==
    LoadConfigurationWith(SoundfontFiles, SfPaths, SoundfontFiles \X SoundfontFiles)

NextStartup ==
    \/ LoadSoundfontConfiguration \/ ConfigPrint \/ CheckSoundfont \/ Daemonize
    \/ SetupSignals \/ InitAudio \/ InitSynth \/ InitMidi \/ Cleanup

SpecStartup == Init /\ [][NextStartup]_vars

UsableSoundfonts(config) ==
    {i \in 1..Len(config.soundfonts) :
        config.soundfonts[i].enabled /\ config.soundfonts[i].path \in fs}

(* C19: an inaccessible soundfont among several is skipped and is never    *)
(* fatal by itself: whenever at least one entry of the loaded              *)
(* configuration is enabled and readable, main's soundfont check does not  *)
(* abort the startup, wherever that entry stands in the list, the case of  *)
(* an unreadable first entry included.                                     *)
C19_UnreadableSoundfontNotFatal ==
    [][(pc = "check_soundfont" /\ UsableSoundfonts(g_config) # {}) => pc' # "cleanup"]_vars

(* What does hold: the check passes exactly when the first entry of the    *)
(* list is enabled and readable.                                           *)
C19_FirstEntryDecides ==
    [][pc = "check_soundfont" =>
          (pc' = "cleanup" <=> 1 \notin UsableSoundfonts(g_config))]_vars

(***************************************************************************)
(* The pitch-bend path of the JACK transport.  midi_jack.c: handle_event   *)
(* turns the three bytes of a wire message into a sequencer event;         *)
(* synth.c: synth_handle_midi_event routes the event to synth_pitch_bend,  *)
(* which checks channel and value before it calls the engine.  fluid_ok    *)
(* tells whether fluid_synth_pitch_bend returns FLUID_OK.                  *)
(***************************************************************************)
RECURSIVE BitOr(_, _)
BitOr(a, b) ==
    IF a = 0 THEN b
    ELSE IF b = 0 THEN a
    ELSE (IF a % 2 = 1 \/ b % 2 = 1 THEN 1 ELSE 0) + 2 * BitOr(a \div 2, b \div 2)

ShiftLeft7(x) == x * 128

NoEvent == [type |-> "none", channel |-> 0, note |-> 0, velocity |-> 0,
            param |-> 0, value |-> 0]

handle_event_no_size_check(d) ==
    IF Len(d) = 0 THEN NoEvent
    ELSE LET padded == d \o <<0, 0>>
         IN IF d[1] \div 16 = 9
            THEN [NoEvent EXCEPT !.type = "SND_SEQ_EVENT_NOTEON", !.channel = d[1] % 16,
                                 !.note = padded[2], !.velocity = padded[3]]
            ELSE NoEvent

(* snd_seq_ev_clear zeroes the event; each branch then sets the type and   *)
(* the fields of its kind.  The status nibbles 0xA0 (key pressure) and     *)
(* 0xD0 (channel pressure) have no branch and fall to default.             *)
handle_event(d) ==
    IF Len(d) = 0 THEN NoEvent
    ELSE LET status == d[1] \div 16
             ch == d[1] % 16
         IN IF status = 9 /\ Len(d) >= 3
            THEN [NoEvent EXCEPT !.type = "SND_SEQ_EVENT_NOTEON", !.channel = ch,
                                 !.note = d[2], !.velocity = d[3]]
            ELSE IF status = 8 /\ Len(d) >= 3
            THEN [NoEvent EXCEPT !.type = "SND_SEQ_EVENT_NOTEOFF", !.channel = ch,
                                 !.note = d[2], !.velocity = d[3]]
            ELSE IF status = 11 /\ Len(d) >= 3
            THEN [NoEvent EXCEPT !.type = "SND_SEQ_EVENT_CONTROLLER", !.channel = ch,
                                 !.param = d[2], !.value = d[3]]
            ELSE IF status = 12 /\ Len(d) >= 2
            THEN [NoEvent EXCEPT !.type = "SND_SEQ_EVENT_PGMCHANGE", !.channel = ch,
                                 !.value = d[2]]
            ELSE IF status = 14 /\ Len(d) >= 3
            THEN [NoEvent EXCEPT !.type = "SND_SEQ_EVENT_PITCHBEND", !.channel = ch,
                                 !.value = BitOr(ShiftLeft7(d[3]), d[2]) - 8192]
            ELSE NoEvent

(* The outcome of one synth_* event operation: rejected before the engine  *)
(* is called, or forwarded to the engine with the arguments args.          *)
Rejected == [ret |-> 0 - 1, checked |-> FALSE, engine |-> NULL]

Forwarded_always_ok(args, fluid_ok) ==
    [ret |-> 0, checked |-> TRUE, engine |-> args]

Forwarded(args, fluid_ok) ==
    [ret |-> IF fluid_ok THEN 0 ELSE 0 - 1, checked |-> TRUE, engine |-> args]

InChannels(channel) == channel >= 0 /\ channel < 16

In7Bit(x) == x >= 0 /\ x <= 127

synth_note_on(synth, channel, key, velocity, fluid_ok) ==
    IF synth.state # "alive" THEN Rejected
    ELSE IF ~InChannels(channel) \/ ~In7Bit(key) \/ ~In7Bit(velocity) THEN Rejected
    ELSE Forwarded(<<channel, key, velocity>>, fluid_ok)

(* synth_note_off checks the channel and the key only; the engine's        *)
(* note-off takes no velocity.                                             *)
synth_note_off(synth, channel, key, velocity, fluid_ok) ==
    IF synth.state # "alive" THEN Rejected
    ELSE IF ~InChannels(channel) \/ ~In7Bit(key) THEN Rejected
    ELSE Forwarded(<<channel, key>>, fluid_ok)

synth_program_change(synth, channel, program, fluid_ok) ==
    IF synth.state # "alive" THEN Rejected
    ELSE IF ~InChannels(channel) \/ ~In7Bit(program) THEN Rejected
    ELSE Forwarded(<<channel, program>>, fluid_ok)

synth_control_change(synth, channel, control, value, fluid_ok) ==
    IF synth.state # "alive" THEN Rejected
    ELSE IF ~InChannels(channel) \/ ~In7Bit(control) \/ ~In7Bit(value) THEN Rejected
    ELSE Forwarded(<<channel, control, value>>, fluid_ok)

synth_channel_pressure(synth, channel, pressure, fluid_ok) ==
    IF synth.state # "alive" THEN Rejected
    ELSE IF ~InChannels(channel) \/ ~In7Bit(pressure) THEN Rejected
    ELSE Forwarded(<<channel, pressure>>, fluid_ok)

synth_key_pressure(synth, channel, key, pressure, fluid_ok) ==
    IF synth.state # "alive" THEN Rejected
    ELSE IF ~InChannels(channel) \/ ~In7Bit(key) \/ ~In7Bit(pressure) THEN Rejected
    ELSE Forwarded(<<channel, key, pressure>>, fluid_ok)

synth_pitch_bend(synth, channel, value, fluid_ok) ==
    IF synth.state # "alive"
    THEN [ret |-> 0 - 1, checked |-> FALSE, engine |-> NULL]
    ELSE IF channel < 0 \/ channel >= 16 \/ value < 0 \/ value > 16383
    THEN [ret |-> 0 - 1, checked |-> FALSE, engine |-> NULL]
    ELSE [ret |-> IF fluid_ok THEN 0 ELSE 0 - 1, checked |-> TRUE, engine |-> value]

synth_handle_midi_event_no_offset(synth, ev, fluid_ok) ==
    IF ev.type = "SND_SEQ_EVENT_PITCHBEND"
    THEN [fn |-> "synth_pitch_bend", channel |-> ev.channel, value |-> ev.value,
          result |-> synth_pitch_bend(synth, ev.channel, ev.value, fluid_ok)]
    ELSE NoCall

(* The router: one case per supported event kind, each returning what the *)
(* operation it calls returns; any other kind makes no call and returns 0. *)
(* data holds the arguments after the channel.                             *)
synth_handle_midi_event(synth, ev, fluid_ok) ==
    LET call(fn, data, result) ==
            [fn |-> fn, channel |-> ev.channel, data |-> data,
             value |-> data[Len(data)], result |-> result, ret |-> result.ret]
    IN CASE ev.type = "SND_SEQ_EVENT_NOTEON" ->
              call("synth_note_on", <<ev.note, ev.velocity>>,
                   synth_note_on(synth, ev.channel, ev.note, ev.velocity, fluid_ok))
         [] ev.type = "SND_SEQ_EVENT_NOTEOFF" ->
              call("synth_note_off", <<ev.note, 0>>,
                   synth_note_off(synth, ev.channel, ev.note, 0, fluid_ok))
         [] ev.type = "SND_SEQ_EVENT_KEYPRESS" ->
              call("synth_key_pressure", <<ev.note, ev.velocity>>,
                   synth_key_pressure(synth, ev.channel, ev.note, ev.velocity, fluid_ok))
         [] ev.type = "SND_SEQ_EVENT_CONTROLLER" ->
              call("synth_control_change", <<ev.param, ev.value>>,
                   synth_control_change(synth, ev.channel, ev.param, ev.value, fluid_ok))
         [] ev.type = "SND_SEQ_EVENT_PGMCHANGE" ->
              call("synth_program_change", <<ev.value>>,
                   synth_program_change(synth, ev.channel, ev.value, fluid_ok))
         [] ev.type = "SND_SEQ_EVENT_CHANPRESS" ->
              call("synth_channel_pressure", <<ev.value>>,
                   synth_channel_pressure(synth, ev.channel, ev.value, fluid_ok))
         [] ev.type = "SND_SEQ_EVENT_PITCHBEND" ->
              call("synth_pitch_bend", <<ev.value + 8192>>,
                   synth_pitch_bend(synth, ev.channel, ev.value + 8192, fluid_ok))
         [] OTHER -> NoCall

(***************************************************************************)
(* The wire messages: pitch bend on the first and on the last channel with *)
(* every pair of 7-bit data bytes, and a note-on message, which takes      *)
(* another branch.  One message is handled by an initialised synthesizer.  *)
(***************************************************************************)
DataBytes == 0..127

WireMessages ==
    {<<st, lsb, msb>> : st \in {224, 239}, lsb \in DataBytes, msb \in DataBytes}
    \cup {<<144, 60, 100>>}

InitPitchBend ==
    /\ pc = "library"
    /\ fs = SfPaths
    /\ handlers = FALSE
    /\ g_config = config_init_defaults(SfPaths)
    /\ g_running = 1
    /\ g_reload_config = 0
    /\ g_audio = NULL /\ g_midi = NULL
    /\ audio_obj = NoAudio /\ midi_obj = NoMidi
    /\ \E ext \in SynthExt :
          LET r == synth_init("g_config", g_config, fs, SfPaths, ext)
          IN r.ret # NULL /\ g_synth = r.ret /\ synth_obj = r.synth
    /\ ret = EXIT_SUCCESS
    /\ cleanup_i = 1
    /\ entered_loop = FALSE
    /\ audio_trace = NoTrace
    /\ midi_attempts = <<>>
    /\ last_reload = NoReload
    /\ hup_pending = 0
    /\ iter_reloads = 0
    /\ lib_call = NoCall
    /\ midi_thread = NoThread

JackHandleEventWith(messages) ==
    /\ pc = "library"
    /\ lib_call = NoCall
    /\ \E d \in messages, fluid_ok \in BOOLEAN :
          LET call == synth_handle_midi_event(synth_obj, handle_event(d), fluid_ok)
          IN lib_call' = (IF call = NoCall THEN [fn |-> "ignored"] ELSE call)
                             @@ [wire |-> d, callback |-> 0, fluid_ok |-> fluid_ok]
    /\ UNCHANGED <<midi_thread, pc, fs, handlers, g_running, g_reload_config, g_config, g_audio, g_synth,
                   g_midi, audio_obj, synth_obj, midi_obj, ret, cleanup_i, entered_loop,
                   audio_trace, midi_attempts, last_reload, hup_pending, iter_reloads>>

JackHandleEvent == JackHandleEventWith(WireMessages)

SpecPitchBend == InitPitchBend /\ [][JackHandleEvent]_vars

(* C20: for every 14-bit value v, sent as lsb = v mod 128 and              *)
(* msb = v div 128, the offset the JACK transport subtracts and the offset *)
(* the router adds back cancel: synth_pitch_bend is called with exactly v, *)
(* and v passes its 0..16383 range check.                                  *)
C20_PitchBendRoundTrip ==
    lib_call.fn = "synth_pitch_bend" =>
        LET v == lib_call.wire[3] * 128 + lib_call.wire[2]
        IN /\ v \in 0..16383
           /\ lib_call.value = v
           /\ lib_call.result.checked
           /\ lib_call.result.engine = v

C20_Witness ==
    /\ lib_call.fn = "synth_pitch_bend"
    /\ lib_call.wire = <<239, 127, 127>>
    /\ lib_call.value = 16383
    /\ lib_call.result.ret = 0

(***************************************************************************)
(* Dispatch of one event.  The sequencer transport hands the router an     *)
(* event the ALSA library has already parsed (midi_alsa.c:                 *)
(* midi_thread_func); the JACK transport parses the wire bytes itself.     *)
(* The fields of a sequencer event are as wide as their C types: channel,  *)
(* note and velocity are unsigned char, param is unsigned, value is a      *)
(* signed int.                                                             *)
(***************************************************************************)
NoteKinds == {"SND_SEQ_EVENT_NOTEON", "SND_SEQ_EVENT_NOTEOFF", "SND_SEQ_EVENT_KEYPRESS"}

ControlKinds == {"SND_SEQ_EVENT_CONTROLLER", "SND_SEQ_EVENT_PGMCHANGE",
                 "SND_SEQ_EVENT_CHANPRESS", "SND_SEQ_EVENT_PITCHBEND"}

OtherKinds == {"SND_SEQ_EVENT_SYSEX", "SND_SEQ_EVENT_START"}

ChannelSamples == {0, 9, 15, 16, 255}

ByteSamples == {0, 64, 127, 128, 255}

ValueSamples == {0 - 8193, 0 - 8192, 0 - 1, 0, 64, 127, 128, 8191, 8192}

SequencerEvents ==
    {[NoEvent EXCEPT !.type = t, !.channel = c, !.note = n, !.velocity = v] :
        t \in NoteKinds \cup OtherKinds, c \in ChannelSamples,
        n \in ByteSamples, v \in ByteSamples}
    \cup {[NoEvent EXCEPT !.type = t, !.channel = c, !.param = q, !.value = v] :
        t \in ControlKinds \cup OtherKinds, c \in ChannelSamples,
        q \in {0, 127, 128}, v \in ValueSamples}

(* One pass of the inner loop of midi_thread_func: the event read from the *)
(* sequencer is given to the router, whose result is only logged.          *)
AlsaHandleEvent ==
    /\ pc = "library"
    /\ lib_call = NoCall
    /\ \E ev \in SequencerEvents, fluid_ok \in BOOLEAN :
          lib_call' = synth_handle_midi_event(synth_obj, ev, fluid_ok)
                          @@ [event |-> ev, fluid_ok |-> fluid_ok]
    /\ UNCHANGED <<midi_thread, pc, fs, handlers, g_running, g_reload_config, g_config, g_audio, g_synth,
                   g_midi, audio_obj, synth_obj, midi_obj, ret, cleanup_i, entered_loop,
                   audio_trace, midi_attempts, last_reload, hup_pending, iter_reloads>>

(* Wire messages of every status nibble, of every length from empty to     *)
(* three bytes, with data bytes at the edges of the 7-bit range.           *)
StatusBytes == {128, 144, 159, 160, 176, 192, 208, 224, 240}

WireSamples ==
    {<<>>}
    \cup {<<st>> : st \in StatusBytes}
    \cup {<<st, a>> : st \in StatusBytes, a \in ByteSamples}
    \cup {<<st, a, b>> : st \in StatusBytes, a \in ByteSamples, b \in ByteSamples}

JackHandleSample == JackHandleEventWith(WireSamples)

NextDispatch == AlsaHandleEvent \/ JackHandleSample

SpecDispatch == InitPitchBend /\ [][NextDispatch]_vars

OperationOf(type) ==
    CASE type = "SND_SEQ_EVENT_NOTEON" -> "synth_note_on"
      [] type = "SND_SEQ_EVENT_NOTEOFF" -> "synth_note_off"
      [] type = "SND_SEQ_EVENT_KEYPRESS" -> "synth_key_pressure"
      [] type = "SND_SEQ_EVENT_CONTROLLER" -> "synth_control_change"
      [] type = "SND_SEQ_EVENT_PGMCHANGE" -> "synth_program_change"
      [] type = "SND_SEQ_EVENT_CHANPRESS" -> "synth_channel_pressure"
      [] type = "SND_SEQ_EVENT_PITCHBEND" -> "synth_pitch_bend"
      [] OTHER -> "none"

(* The data of a canonical event, in wire terms: pitch bend as 0..16383.   *)
DataOf(ev) ==
    CASE ev.type \in NoteKinds -> <<ev.note, ev.velocity>>
      [] ev.type = "SND_SEQ_EVENT_CONTROLLER" -> <<ev.param, ev.value>>
      [] ev.type = "SND_SEQ_EVENT_PITCHBEND" -> <<ev.value + 8192>>
      [] OTHER -> <<ev.value>>

InRange(ev) ==
    /\ ev.channel \in 0..15
    /\ IF ev.type = "SND_SEQ_EVENT_PITCHBEND" THEN ev.value + 8192 \in 0..16383
       ELSE \A i \in 1..Len(DataOf(ev)) : DataOf(ev)[i] \in 0..127

Dispatched == "event" \in DOMAIN lib_call

C23_OutOfRangeRejected ==
    [][\A ev \in SequencerEvents :
          (Dispatched' /\ lib_call'.event = ev
              /\ ev.type \notin OtherKinds /\ ~InRange(ev)) =>
          /\ lib_call'.ret = 0 - 1
          /\ ~lib_call'.result.checked
          /\ synth_obj' = synth_obj]_vars

(* What the code does reject: every out-of-range event except a note-off   *)
(* whose only fault is its velocity.                                       *)
C23_RejectedExceptNoteOffVelocity ==
    [][\A ev \in SequencerEvents :
          (Dispatched' /\ lib_call'.event = ev
              /\ ev.type \notin OtherKinds /\ ~InRange(ev)) =>
          \/ /\ lib_call'.ret = 0 - 1
             /\ ~lib_call'.result.checked
             /\ synth_obj' = synth_obj
          \/ /\ ev.type = "SND_SEQ_EVENT_NOTEOFF"
             /\ InRange([ev EXCEPT !.velocity = 0])
             /\ lib_call'.result.checked]_vars

(* The data bytes a wire message of each kind must carry for handle_event  *)
(* to be well formed.                                                      *)
DataBytesRequired(status) ==
    IF status \div 16 \in {8, 9, 11, 14} THEN 2
    ELSE IF status \div 16 = 12 THEN 1
    ELSE 0

FromWire == "wire" \in DOMAIN lib_call

(* C24: a wire message that is empty, or that has fewer data bytes than    *)
(* its kind requires (two for note-on, note-off, control change and pitch  *)
(* bend, one for program change), is dropped: no canonical event is made,  *)
(* no synth operation is called, and the transport callback returns 0.     *)
C24_ShortMessageDropped ==
    FromWire =>
        LET d == lib_call.wire
        IN (Len(d) = 0 \/ Len(d) - 1 < DataBytesRequired(d[1])) =>
              /\ handle_event(d) = NoEvent
              /\ lib_call.fn = "ignored"
              /\ lib_call.callback = 0

C24_Witness ==
    /\ FromWire
    /\ lib_call.wire = <<144, 64>>
    /\ lib_call.fn = "ignored"
    /\ lib_call.callback = 0

(* The sequencer event equal to a well-formed wire message: the kind from  *)
(* the status nibble, the channel from the low nibble, one or two 7-bit    *)
(* data bytes, pitch bend as a signed offset from the centre.              *)
WellFormed(d) ==
    /\ Len(d) >= 2
    /\ d[1] \div 16 \in 8..14
    /\ Len(d) = (IF d[1] \div 16 \in {12, 13} THEN 2 ELSE 3)
    /\ \A i \in 2..Len(d) : d[i] \in 0..127

EquivalentEvent(d) ==
    LET k == d[1] \div 16
        e == [NoEvent EXCEPT !.channel = d[1] % 16]
    IN CASE k = 8 -> [e EXCEPT !.type = "SND_SEQ_EVENT_NOTEOFF", !.note = d[2], !.velocity = d[3]]
         [] k = 9 -> [e EXCEPT !.type = "SND_SEQ_EVENT_NOTEON", !.note = d[2], !.velocity = d[3]]
         [] k = 10 -> [e EXCEPT !.type = "SND_SEQ_EVENT_KEYPRESS", !.note = d[2], !.velocity = d[3]]
         [] k = 11 -> [e EXCEPT !.type = "SND_SEQ_EVENT_CONTROLLER", !.param = d[2], !.value = d[3]]
         [] k = 12 -> [e EXCEPT !.type = "SND_SEQ_EVENT_PGMCHANGE", !.value = d[2]]
         [] k = 13 -> [e EXCEPT !.type = "SND_SEQ_EVENT_CHANPRESS", !.value = d[2]]
         [] k = 14 -> [e EXCEPT !.type = "SND_SEQ_EVENT_PITCHBEND",
                                !.value = d[3] * 128 + d[2] - 8192]

(* The call the JACK transport made for the wire message is the call the   *)
(* sequencer transport makes for the equal sequencer event.                *)
SameCallAsSequencer ==
    LET seq == synth_handle_midi_event(synth_obj, EquivalentEvent(lib_call.wire),
                                       lib_call.fluid_ok)
    IN /\ lib_call.fn = seq.fn
       /\ lib_call.channel = seq.channel
       /\ lib_call.data = seq.data
       /\ lib_call.result = seq.result

(* C25: for each of the seven kinds (note-on, note-off, control change,    *)
(* program change, pitch bend, channel pressure, key pressure) a           *)
(* well-formed wire message on the JACK transport produces the same synth  *)
(* call as the equal sequencer event on the sequencer transport.           *)
C25_TransportsConverge ==
    (FromWire /\ WellFormed(lib_call.wire)) => SameCallAsSequencer

(* The five kinds the JACK transport has a case for do converge.           *)
C25_ConvergeExceptPressure ==
    (FromWire /\ WellFormed(lib_call.wire)) =>
        IF lib_call.wire[1] \div 16 \in {10, 13}
        THEN lib_call.fn = "ignored"
        ELSE SameCallAsSequencer

(***************************************************************************)
(* The MIDI input context running beside the main thread.                  *)
(*                                                                         *)
(* Sequencer transport (midi_alsa.c): midi_alsa_init starts                *)
(* midi_thread_func, which loops on midi->running, polls the sequencer's   *)
(* descriptors, and reads events for as long as                            *)
(* snd_seq_event_input_pending(seq, 0) is positive.  Events a peer sends   *)
(* wait in the kernel queue of the port (fifo); poll reports that queue.   *)
(* With fetch_sequencer = 0 the pending call reports only the library's    *)
(* own input buffer (ibuf), which nothing but snd_seq_event_input fills.   *)
(* midi->running is a volatile int written by midi_alsa_cleanup just       *)
(* before it blocks in pthread_join; a late read of the old value by the   *)
(* thread is the same as the thread having run before the write.           *)
(*                                                                         *)
(* JACK transport (midi_jack.c): process_callback runs on the JACK         *)
(* client's thread and handles the events of the port buffer in order.     *)
(***************************************************************************)
NoteOnWire(i) == <<144, 59 + i, 100>>

(* What one call of the router on event i is recorded as: the handle it    *)
(* was given, the live handle and the state of the synth at that moment.   *)
RouterCall(i, ev) ==
    LET call == synth_handle_midi_event(synth_obj, ev, TRUE)
    IN [id |-> i, handle |-> midi_thread.synth, live |-> g_synth,
        state |-> synth_obj.state, fn |-> call.fn, note |-> call.data[1], ret |-> call.ret]

ThreadUnchanged ==
    UNCHANGED <<pc, fs, handlers, g_running, g_reload_config, g_config, g_audio, g_synth,
                g_midi, audio_obj, synth_obj, midi_obj, ret, cleanup_i, entered_loop,
                audio_trace, midi_attempts, last_reload, hup_pending, iter_reloads, lib_call>>

(* A peer writes the next note-on to the open port.                        *)
SeqDeliver ==
    /\ midi_obj.state = "open"
    /\ midi_thread.sent < MaxEvents
    /\ midi_thread' = [midi_thread EXCEPT !.sent = @ + 1, !.fifo = Append(@, midi_thread.sent + 1)]
    /\ ThreadUnchanged

(* while (midi->running) *)
ThreadWhile ==
    /\ midi_thread.pc = "while"
    /\ midi_thread' = [midi_thread EXCEPT !.pc = IF midi_obj.running THEN "poll" ELSE "returned"]
    /\ ThreadUnchanged

(* poll(..., 100): positive when the port has events, 0 on timeout; an     *)
(* EINTR continues the loop, any other error breaks out of it.             *)
ThreadPollWith(errors) ==
    /\ midi_thread.pc = "poll"
    /\ \E outcome \in {"poll"} \cup errors :
          midi_thread' = [midi_thread EXCEPT !.pc =
              CASE outcome = "error" -> "returned"
                [] outcome = "EINTR" -> "while"
                [] OTHER -> IF Len(midi_thread.fifo) > 0 THEN "pending" ELSE "while"]
    /\ ThreadUnchanged

ThreadPoll == ThreadPollWith({"EINTR", "error"})

(* One test of the inner loop and, when it passes, one turn of its body:   *)
(* snd_seq_event_input takes the first event of the input buffer, the      *)
(* router is called on it, and the event is freed; a read error breaks.    *)
ThreadPending ==
    /\ midi_thread.pc = "pending"
    /\ IF midi_obj.running /\ Len(midi_thread.ibuf) > 0
       THEN \E read_ok \in BOOLEAN :
               midi_thread' =
                  IF read_ok
                  THEN [midi_thread EXCEPT
                           !.ibuf = Tail(@),
                           !.calls = Append(@, RouterCall(Head(midi_thread.ibuf),
                                               handle_event(NoteOnWire(Head(midi_thread.ibuf)))))]
                  ELSE [midi_thread EXCEPT !.pc = "while"]
       ELSE midi_thread' = [midi_thread EXCEPT !.pc = "while"]
    /\ ThreadUnchanged

JackProcessCallback_newest_first ==
    /\ midi_obj.kind = "jack"
    /\ midi_obj.state = "open"
    /\ Len(midi_thread.fifo) > 0
    /\ LET n == Len(midi_thread.fifo)
           i == midi_thread.fifo[n]
       IN midi_thread' = [midi_thread EXCEPT
                             !.fifo = SubSeq(@, 1, n - 1),
                             !.calls = Append(@, RouterCall(i, handle_event(NoteOnWire(i))))]
    /\ ThreadUnchanged

(* One turn of the loop of process_callback: the next event of the port    *)
(* buffer is parsed by handle_event and given to the router.               *)
JackProcessCallback ==
    /\ midi_obj.kind = "jack"
    /\ midi_obj.state = "open"
    /\ Len(midi_thread.fifo) > 0
    /\ LET i == Head(midi_thread.fifo)
       IN midi_thread' = [midi_thread EXCEPT
                             !.fifo = Tail(@),
                             !.calls = Append(@, RouterCall(i, handle_event(NoteOnWire(i))))]
    /\ ThreadUnchanged

(* midi_alsa_cleanup in two steps: the flag is cleared, then pthread_join  *)
(* returns once the thread has, and the sequencer is closed.               *)
MidiCleanupStop ==
    /\ pc = "cleanup"
    /\ cleanup_i <= Len(CleanupSteps)
    /\ CleanupSteps[cleanup_i] = "midi_cleanup"
    /\ g_midi # NULL
    /\ midi_obj.thread = "running"
    /\ midi_obj' = [midi_obj EXCEPT !.running = FALSE]
    /\ pc' = "midi_join"
    /\ UNCHANGED <<fs, handlers, g_running, g_reload_config, g_config, g_audio, g_synth,
                   g_midi, audio_obj, synth_obj, ret, cleanup_i, entered_loop, audio_trace,
                   midi_attempts, last_reload, hup_pending, iter_reloads, lib_call, midi_thread>>

MidiCleanupJoin_no_wait ==
    /\ pc = "midi_join"
    /\ midi_obj' = [midi_obj EXCEPT !.thread = "joined", !.state = "closed"]
    /\ cleanup_i' = cleanup_i + 1
    /\ pc' = "cleanup"
    /\ UNCHANGED <<fs, handlers, g_running, g_reload_config, g_config, g_audio, g_synth,
                   g_midi, audio_obj, synth_obj, ret, entered_loop, audio_trace,
                   midi_attempts, last_reload, hup_pending, iter_reloads, lib_call, midi_thread>>

MidiCleanupJoin ==
    /\ pc = "midi_join"
    /\ midi_thread.pc = "returned"
    /\ midi_obj' = [midi_obj EXCEPT !.thread = "joined", !.state = "closed"]
    /\ cleanup_i' = cleanup_i + 1
    /\ pc' = "cleanup"
    /\ UNCHANGED <<fs, handlers, g_running, g_reload_config, g_config, g_audio, g_synth,
                   g_midi, audio_obj, synth_obj, ret, entered_loop, audio_trace,
                   midi_attempts, last_reload, hup_pending, iter_reloads, lib_call, midi_thread>>

(* The other steps of cleanup_modules, and midi_jack_cleanup, whose        *)
(* jack_client_close ends the callbacks.                                   *)
CleanupRest ==
    /\ pc = "cleanup"
    /\ cleanup_i <= Len(CleanupSteps)
    /\ ~(CleanupSteps[cleanup_i] = "midi_cleanup" /\ g_midi # NULL /\ midi_obj.thread = "running")
    /\ Cleanup

MidiContext == SeqDeliver \/ ThreadWhile \/ ThreadPoll \/ ThreadPending \/ JackProcessCallback

NextMidiThread ==
    \/ InitAudio \/ InitSynth \/ InitMidi
    \/ LoopCheck \/ LoopReloadTest \/ LoopClear \/ Reload \/ LoopProcess
    \/ MidiCleanupStop \/ MidiCleanupJoin \/ CleanupRest
    \/ SigTerm \/ SigHup
    \/ MidiContext

SpecMidiThread == InitLifecycle /\ [][NextMidiThread]_vars

CallIds == [k \in 1..Len(midi_thread.calls) |-> midi_thread.calls[k].id]

(* C22: dispatch never buffers or reorders.  The router calls made so far, *)
(* followed by the events still waiting in the transport, are the events   *)
(* in the order they were delivered; no event that has left the transport  *)
(* is held back, and each call carries the note of its event.              *)
C22_CallsInDeliveryOrder ==
    /\ CallIds \o midi_thread.ibuf \o midi_thread.fifo = [k \in 1..midi_thread.sent |-> k]
    /\ \A k \in 1..Len(midi_thread.calls) :
          /\ midi_thread.calls[k].fn = "synth_note_on"
          /\ midi_thread.calls[k].note = 59 + k

C22_Witness ==
    /\ midi_thread.sent = 2
    /\ CallIds = <<1, 2>>
    /\ midi_thread.fifo = <<>>
    /\ pc = "loop_process"

(***************************************************************************)
(* Reload cycles interleaved with a stream of note-on events: no shutdown  *)
(* is requested and poll does not fail.  The thread is scheduled and the   *)
(* JACK server runs its process cycle, so each step of the MIDI context    *)
(* that stays possible is eventually taken.                                *)
(***************************************************************************)
ThreadPollQuiet == ThreadPollWith({})

NextReloadStream ==
    \/ InitAudio \/ InitSynth \/ InitMidi
    \/ LoopCheck \/ LoopReloadTest \/ LoopClear \/ Reload \/ LoopProcess
    \/ Cleanup
    \/ SigHup
    \/ SeqDeliver \/ ThreadWhile \/ ThreadPollQuiet \/ ThreadPending \/ JackProcessCallback

SpecReloadStream ==
    /\ InitLifecycle
    /\ [][NextReloadStream]_vars
    /\ WF_vars(ThreadWhile) /\ WF_vars(ThreadPollQuiet) /\ WF_vars(ThreadPending)
    /\ WF_vars(JackProcessCallback)

TimesRouted(i) == Cardinality({k \in 1..Len(midi_thread.calls) : midi_thread.calls[k].id = i})

ValidHandleSeen ==
    \A k \in 1..Len(midi_thread.calls) :
        /\ midi_thread.calls[k].handle = midi_thread.calls[k].live
        /\ midi_thread.calls[k].handle # NULL
        /\ midi_thread.calls[k].state = "alive"

(* C26: in every interleaving of reload cycles with a bounded stream of    *)
(* note-on events, every event sent to the port is routed, exactly once,   *)
(* and no dispatch sees a replaced or invalid synth handle.                *)
C26_EveryEventRoutedOnce ==
    /\ [](ValidHandleSeen /\ \A i \in 1..MaxEvents : TimesRouted(i) <= 1)
    /\ \A i \in 1..MaxEvents : (midi_thread.sent >= i) ~> (TimesRouted(i) = 1)

(* What holds on both transports: no event is routed twice and every       *)
(* dispatch sees the live, valid handle; and on the JACK transport every   *)
(* event is routed.                                                        *)
C26_RoutedOnceOnJack ==
    /\ [](ValidHandleSeen /\ \A i \in 1..MaxEvents : TimesRouted(i) <= 1)
    /\ \A i \in 1..MaxEvents :
          (midi_thread.sent >= i /\ midi_obj.kind = "jack") ~> (TimesRouted(i) = 1)

(* On the sequencer transport no event is ever routed.                     *)
C26_SequencerRoutesNothing ==
    midi_obj.kind = "alsa" => midi_thread.calls = <<>> /\ midi_thread.ibuf = <<>>

(* C27: shutdown is cooperative.  On the sequencer transport the running   *)
(* flag is cleared and the thread has returned and been joined before the  *)
(* transport is closed, the transport is closed before the synth is        *)
(* destroyed, and no call of the router was made on a synth that           *)
(* synth_cleanup had begun to destroy.                                     *)
C27_ThreadJoinedBeforeTeardown ==
    /\ (midi_obj.kind = "alsa" /\ midi_obj.state = "closed" /\ midi_thread.pc # "none") =>
          /\ ~midi_obj.running
          /\ midi_obj.thread = "joined"
          /\ midi_thread.pc = "returned"
    /\ synth_obj.state = "destroyed" =>
          /\ midi_thread.pc \in {"none", "returned"}
          /\ midi_obj.state # "open"
    /\ \A k \in 1..Len(midi_thread.calls) : midi_thread.calls[k].state = "alive"

C27_Witness ==
    /\ midi_obj.kind = "alsa"
    /\ midi_obj.thread = "joined"
    /\ midi_thread.pc = "returned"
    /\ midi_thread.sent > 0
    /\ synth_obj.state = "destroyed"
    /\ pc = "stopped"

(***************************************************************************)
(* The panic request over the life of the daemon, with either MIDI         *)
(* transport selected, and with engine calls of the panic loop failing on  *)
(* the first, the drum and the last channel.                               *)
(***************************************************************************)
FailedSamples == {{}, {0}, {9, 15}, 0..15}

SigUsr2Traced == SigUsr2Handler(FailedSamples, TRUE)

NextPanic == MainModules \/ SigTerm \/ SigHup \/ SigUsr2Traced

SpecPanic == InitLifecycle /\ [][NextPanic]_vars

(* C28: a panic request delivered while a MIDI transport is open, or with  *)
(* no transport but a live synth, reaches synth_all_notes_off, whichever   *)
(* the transport; the operation issues all-notes-off to each of the 16     *)
(* channels exactly once, in order, going on after a channel fails.        *)
C28_PanicReachesEveryChannel ==
    lib_call.fn = "SIGUSR2" =>
        /\ (lib_call.open \/ (lib_call.transport = "none" /\ lib_call.synth = "alive")) =>
              /\ Len(lib_call.engine) = 16
              /\ \A c \in 0..15 :
                    /\ lib_call.engine[c + 1].channel = c
                    /\ lib_call.engine[c + 1].ok = (c \notin lib_call.failed)
        /\ lib_call.engine # <<>> => Len(lib_call.engine) = 16

C28_Witness ==
    /\ lib_call.fn = "SIGUSR2"
    /\ lib_call.transport = "jack"
    /\ lib_call.failed = {9, 15}
    /\ Len(lib_call.engine) = 16
    /\ ~lib_call.engine[10].ok
    /\ lib_call.engine[11].ok

(***************************************************************************)
(* synth_reset_controllers.  The engine keeps, for each of 16 channels,    *)
(* the controller values, the pitch bend and the program.  fluid_synth_cc  *)
(* sets one controller; controller 121 (reset all controllers) puts        *)
(* expression at 127, the sustain pedal at 0 and the pitch bend at the     *)
(* centre and leaves volume and pan; controller 123 and the two            *)
(* all-sounds/notes-off calls end notes and change no controller.  The     *)
(* results of the engine calls are not looked at: on the channels of       *)
(* failed the calls fail and change nothing.                               *)
(***************************************************************************)
FreshChannel == [volume |-> 100, pan |-> 64, expression |-> 127, sustain |-> 0,
                 pitch_bend |-> 8192, program |-> 0]

fluid_synth_cc(chan, ctrl, value) ==
    CASE ctrl = 7 -> [chan EXCEPT !.volume = value]
      [] ctrl = 10 -> [chan EXCEPT !.pan = value]
      [] ctrl = 11 -> [chan EXCEPT !.expression = value]
      [] ctrl = 64 -> [chan EXCEPT !.sustain = value]
      [] ctrl = 121 -> [chan EXCEPT !.expression = 127, !.sustain = 0, !.pitch_bend = 8192]
      [] OTHER -> chan

(* The body of the loop for channel i. *)
ResetChannel_full_volume(chan, i) ==
    [chan EXCEPT !.volume = 127, !.program = IF i # 9 THEN 0 ELSE @]

ResetChannel(chan, i) ==
    LET c1 == fluid_synth_cc(chan, 7, 100)
        c2 == fluid_synth_cc(c1, 10, 64)
        c3 == fluid_synth_cc(c2, 11, 127)
        c4 == fluid_synth_cc(c3, 64, 0)
        c5 == fluid_synth_cc(c4, 123, 0)
        c6 == fluid_synth_cc(c5, 121, 0)
        c7 == [c6 EXCEPT !.pitch_bend = 8192]
    IN IF i # 9 THEN [c7 EXCEPT !.program = 0] ELSE c7

synth_reset_controllers(synth, channels, failed) ==
    IF synth.state # "alive" THEN [ret |-> 0 - 1, channels |-> channels]
    ELSE [ret |-> 0,
          channels |-> [i \in 0..15 |-> IF i \in failed THEN channels[i]
                                        ELSE ResetChannel(channels[i], i)]]

(* The engine of a freshly initialised synth, and engines on which         *)
(* channel 0 or the drum channel has been played on.                       *)
FreshEngine == [i \in 0..15 |-> FreshChannel]

EngineStates ==
    {[FreshEngine EXCEPT ![c] = [volume |-> v, pan |-> p, expression |-> e, sustain |-> s,
                                 pitch_bend |-> b, program |-> g]] :
        c \in {0, 9}, v \in {100, 0}, p \in {64, 0}, e \in {127, 1}, s \in {0, 127},
        b \in {8192, 0}, g \in {0, 5}}

ResetControllers ==
    /\ pc = "library"
    /\ lib_call = NoCall
    /\ \E channels \in EngineStates, failed \in FailedSamples :
          LET r == synth_reset_controllers(synth_obj, channels, failed)
          IN lib_call' = [fn |-> "synth_reset_controllers", before |-> channels,
                          failed |-> failed, after |-> r.channels, ret |-> r.ret]
    /\ UNCHANGED <<pc, fs, handlers, g_running, g_reload_config, g_config, g_audio, g_synth,
                   g_midi, audio_obj, synth_obj, midi_obj, ret, cleanup_i, entered_loop,
                   audio_trace, midi_attempts, last_reload, hup_pending, iter_reloads,
                   midi_thread>>

SpecReset == InitPitchBend /\ [][ResetControllers]_vars

(* C29: synth_reset_controllers on a freshly initialised synth leaves      *)
(* every one of the 16 channels with volume 100, pan 64, expression 127,   *)
(* the sustain pedal released and the pitch bend centred at 8192, and      *)
(* program 0 on every channel but channel 9, whose program it does not     *)
(* touch on any synth.                                                     *)
C29_ResetLeavesDefaults ==
    lib_call.fn = "synth_reset_controllers" =>
        /\ lib_call.ret = 0
        /\ lib_call.after[9].program = lib_call.before[9].program
        /\ lib_call.before = FreshEngine =>
              \A i \in 0..15 :
                 /\ lib_call.after[i].volume = 100
                 /\ lib_call.after[i].pan = 64
                 /\ lib_call.after[i].expression = 127
                 /\ lib_call.after[i].sustain = 0
                 /\ lib_call.after[i].pitch_bend = 8192
                 /\ i # 9 => lib_call.after[i].program = 0

C29_Witness ==
    /\ lib_call.fn = "synth_reset_controllers"
    /\ lib_call.before = FreshEngine
    /\ lib_call.failed = {}
    /\ lib_call.after = FreshEngine
    /\ lib_call.ret = 0

(***************************************************************************)
(* The status request over the life of the daemon.                         *)
(***************************************************************************)
SigUsr1Traced == SigUsr1Handler(TRUE)

NextStatus == MainModules \/ SigTerm \/ SigHup \/ SigUsr1Traced

SpecStatus == InitLifecycle /\ [][NextStatus]_vars

(* C30: a status request alters nothing: the live configuration, the       *)
(* running and reload-pending flags, the synth and its settings, the MIDI  *)
(* transport and its thread, the audio output, the handles and the         *)
(* position of the main thread are the same after the handler as before.   *)
C30_StatusChangesNothing ==
    [][SigUsr1Traced =>
          UNCHANGED <<g_config, g_running, g_reload_config, synth_obj, g_synth, midi_obj,
                      g_midi, midi_thread, audio_obj, g_audio, pc, ret, cleanup_i>>]_vars

C30_Witness ==
    /\ lib_call.fn = "SIGUSR1"
    /\ lib_call.logged = "Synth status"
    /\ lib_call.at = "loop_process"
    /\ lib_call.synth = synth_obj
    /\ lib_call.midi = midi_obj
    /\ g_reload_config = 1
    /\ pc = "loop_process"

(***************************************************************************)
(* config.h: the result codes documented for config_validate               *)
(***************************************************************************)
CONFIG_VALID == 0
CONFIG_INVALID == 0 - 1
CONFIG_WARNINGS_FIXED == 1

(* C31: the value config_validate returns is always one of the three       *)
(* documented codes: CONFIG_VALID when every value was valid,              *)
(* CONFIG_WARNINGS_FIXED when some values were corrected, CONFIG_INVALID   *)
(* when a critical error was found.                                        *)
C31_ReturnIsDocumentedCode ==
    lib_call.fn = "config_validate" =>
        lib_call.ret \in {CONFIG_VALID, CONFIG_WARNINGS_FIXED, CONFIG_INVALID}

(* What the code returns instead: CONFIG_INVALID, or the number of         *)
(* corrections made, which is CONFIG_VALID exactly when the call changed   *)
(* nothing.                                                                *)
C31_ReturnIsInvalidOrFixCount ==
    lib_call.fn = "config_validate" =>
        \/ lib_call.ret = CONFIG_INVALID
        \/ /\ lib_call.ret >= CONFIG_VALID
           /\ (lib_call.ret = CONFIG_VALID) <=> (g_config = lib_call.before)

(***************************************************************************)
(* audio.c: audio_get_driver                                               *)
(***************************************************************************)
audio_get_driver(handle, audio) ==
    IF handle = NULL THEN AUDIO_DRIVER_AUTO ELSE audio.detected_driver

(* C32: once the synthesizer is initialised, the audio driver its audio    *)
(* output was opened with is the one audio_init resolved (the detected     *)
(* driver, or ALSA after a fallback): the synthesizer's audio driver       *)
(* setting equals the result of audio_get_driver.                          *)
C32_SynthOpensResolvedDriver ==
    (g_synth # NULL /\ synth_obj.state = "alive") =>
        synth_obj.audio_driver = audio_get_driver(g_audio, audio_obj)

(* What the code does instead: the setting is the configured selector.     *)
C32_SynthOpensConfiguredDriver ==
    (g_synth # NULL /\ synth_obj.state = "alive") =>
        synth_obj.audio_driver = g_config.audio_driver

(***************************************************************************)
(* The main loop's health check beside the sequencer thread: the main      *)
(* thread is scheduled fairly (each of its calls returns and its next      *)
(* statement runs), and so is the MIDI thread's loop test, which is what   *)
(* lets pthread_join return.  poll may fail at any turn; signals carry no  *)
(* fairness.                                                               *)
(***************************************************************************)
MainThread ==
    \/ InitAudio \/ InitSynth \/ InitMidi
    \/ LoopCheck \/ LoopReloadTest \/ LoopClear \/ Reload \/ LoopProcess
    \/ MidiCleanupStop \/ MidiCleanupJoin \/ CleanupRest

SpecHealth ==
    /\ InitLifecycle
    /\ [][NextMidiThread]_vars
    /\ WF_vars(MainThread) /\ WF_vars(ThreadWhile)

ThreadDead == midi_obj.kind = "alsa" /\ midi_obj.state = "open" /\ midi_thread.pc = "returned"

ShuttingDown == pc \in {"cleanup", "midi_join", "stopped"}

(* C33: the health check of the main loop detects a dead MIDI thread.      *)
(* Whenever the sequencer thread is no longer running, also when it        *)
(* returned by itself after a poll error, midi_alsa_process_events         *)
(* returns a negative value at the next turn of the loop and the daemon    *)
(* goes on to shutdown.                                                    *)
C33_DeadThreadLeadsToShutdown ==
    (ThreadDead /\ pc \in LoopPcs) ~> ShuttingDown

(* The flag the health check reads is cleared by midi_alsa_cleanup alone:  *)
(* while the main thread is in its loop the flag is set, whatever the      *)
(* thread has done, and midi_alsa_process_events returns 0.                *)
C33_FlagOutlivesThread ==
    (midi_obj.kind = "alsa" /\ pc \in LoopPcs) =>
        /\ midi_obj.running
        /\ midi_alsa_process_events(midi_obj) = 0

(* C34: no reload request is lost.  The pending flag is set exactly when   *)
(* a request has been delivered since the flag was last cleared at the     *)
(* start of a reload cycle, so a request that arrives while a cycle is     *)
(* executing leaves it set; and a set flag leads, unless shutdown          *)
(* intervenes, to a reload cycle that starts after the request and has     *)
(* taken it.                                                               *)
C34_NoReloadRequestLost ==
    /\ []((g_reload_config = 1) <=> (hup_pending > 0))
    /\ (g_reload_config = 1) ~>
          \/ pc = "reload" /\ hup_pending = 0 /\ last_reload.requests > 0
          \/ g_running = 0
          \/ ShuttingDown

C34_Witness ==
    /\ pc = "reload"
    /\ last_reload.requests > 0
    /\ g_reload_config = 1
    /\ hup_pending > 0
    /\ g_running = 1

(* C35: a panic signal delivered at any point of cleanup_modules, or of    *)
(* the cleanup after a failed startup, never operates on a MIDI or synth   *)
(* handle that has been freed: when the handler finds the MIDI handle set  *)
(* the transport is open, and when it falls back to a synth handle that is *)
(* set the synth is alive.                                                 *)
C35_HandlerSeesLiveModules ==
    lib_call.fn = "SIGUSR2" =>
        /\ lib_call.transport # "none" => lib_call.open
        /\ lib_call.transport = "none" => lib_call.synth \in {"none", "alive"}

(* Where the handler does see a freed module: only in cleanup, in the      *)
(* statement between a module's cleanup call and the clearing of its       *)
(* handle.  Outside cleanup the claim holds.                               *)
C35_LiveOutsideCleanup ==
    pc # "cleanup" =>
        /\ g_midi # NULL => midi_obj.state = "open"
        /\ g_synth # NULL => synth_obj.state = "alive"

(* C36: midi_alsa_cleanup joins the MIDI thread only if the thread was     *)
(* created: when midi_alsa_init fails at a step before pthread_create      *)
(* succeeds, its error path releases what was acquired and never joins a   *)
(* thread that was never started.                                          *)
C36_JoinsOnlyCreatedThread == ~midi_obj.bad_join

(* The join of a never-started thread happens on the error path of         *)
(* midi_alsa_init and nowhere else: the object it ran on was never handed  *)
(* out, had no thread, and is released.                                    *)
C36_BadJoinOnlyOnInitError ==
    midi_obj.bad_join <=>
        /\ midi_obj.kind = "alsa"
        /\ midi_obj.thread = "none"
        /\ midi_obj.state = "closed"
        /\ g_midi = NULL

(***************************************************************************)
(* config.h as a library, soundfont lists: a caller calls                  *)
(* config_init_defaults, config_load_file and config_load in any order on  *)
(* files of at most MaxSoundfonts lines, each with one of the two          *)
(* soundfont keys, until the list is full and beyond.  The default         *)
(* soundfont is readable or not.                                           *)
(***************************************************************************)
SfListLines == {Line("soundfont", Str("sfA")), Line("soundfont_path", Str("sfDefault"))}

SfListFiles == {Absent} \cup {FileOf(q) : q \in SeqsUpTo(SfListLines, MaxSoundfonts)}

SfUserFiles == {NoFile, FileOf(<<Line("soundfont", Str("sfA"))>>)}

InitSoundfontList ==
    /\ InitCommon
    /\ pc = "library"
    /\ handlers = FALSE
    /\ fs \in {{}, SfPaths}
    /\ g_config = config_init_defaults(fs)

SfListDefaults ==
    /\ pc = "library"
    /\ g_config' = config_init_defaults(fs)
    /\ lib_call' = [fn |-> "config_init_defaults", before |-> g_config, files |-> <<>>,
                    ret |-> 0]
    /\ UNCHANGED <<midi_thread, pc, fs, handlers, g_running, g_reload_config, g_audio, g_synth, g_midi,
                   audio_obj, synth_obj, midi_obj, ret, cleanup_i, entered_loop, audio_trace,
                   midi_attempts, last_reload, hup_pending, iter_reloads>>

SfListLoadFile == CfgLoadFileWith(SfListFiles)

SfListLoad == CfgLoadWith(SfListFiles, SfUserFiles)

NextSoundfontList == SfListDefaults \/ SfListLoadFile \/ SfListLoad

SpecSoundfontList == InitSoundfontList /\ [][NextSoundfontList]_vars

(* The entries the soundfont lines of the files name, in file order.       *)
RECURSIVE Named(_, _)
Named(files, i) ==
    IF i > Len(files) THEN <<>>
    ELSE [k \in 1..Len(files[i].lines) |-> [path |-> files[i].lines[k].val.s, enabled |-> TRUE]]
            \o Named(files, i + 1)

FirstN(q, n) == IF Len(q) <= n THEN q ELSE SubSeq(q, 1, n)

(* C37: soundfont_count stays within 0..CONFIG_MAX_SOUNDFONTS and every    *)
(* entry below it is an initialised one, after any sequence of defaults    *)
(* and file loads: the soundfont keys of the files loaded are appended in  *)
(* file order after the entries already there, which are kept, and the     *)
(* entries beyond the maximum are dropped.                                 *)
C37_SoundfontListBounded ==
    /\ Len(g_config.soundfonts) \in 0..CONFIG_MAX_SOUNDFONTS
    /\ \A i \in 1..Len(g_config.soundfonts) :
          g_config.soundfonts[i].enabled /\ g_config.soundfonts[i].path \in SfPaths
    /\ lib_call.fn \in {"config_load_file", "config_load"} =>
          g_config.soundfonts =
             FirstN(lib_call.before.soundfonts \o Named(lib_call.files, 1), CONFIG_MAX_SOUNDFONTS)
    /\ lib_call.fn = "config_init_defaults" =>
          Len(g_config.soundfonts) = IF "sfDefault" \in fs THEN 1 ELSE 0

C37_Witness ==
    /\ lib_call.fn = "config_load"
    /\ Len(lib_call.before.soundfonts) = CONFIG_MAX_SOUNDFONTS - 1
    /\ Len(Named(lib_call.files, 1)) = 3
    /\ Len(g_config.soundfonts) = CONFIG_MAX_SOUNDFONTS
    /\ g_config.soundfonts[1].path = "sfDefault"
    /\ g_config.soundfonts[CONFIG_MAX_SOUNDFONTS].path = lib_call.files[1].lines[1].val.s

(* C38: config_validate is idempotent.  With the readable paths unchanged, *)
(* a call made on a configuration that the call just before validated      *)
(* with success changes no field and returns a fix count of 0; and a       *)
(* further call on any configuration validated with success would do the   *)
(* same.                                                                   *)
C38_ValidateIdempotent ==
    lib_call.fn = "config_validate" =>
        /\ lib_call.again => lib_call.ret = 0 /\ g_config = lib_call.before
        /\ lib_call.ret >= 0 => config_validate(g_config, fs) = [ret |-> 0, config |-> g_config]

C38_Witness ==
    /\ lib_call.fn = "config_validate"
    /\ lib_call.again
    /\ lib_call.ret = 0
    /\ Len(g_config.soundfonts) = 2
    /\ ~g_config.soundfonts[1].enabled
    /\ g_config.soundfonts[1].path \notin fs \cup {""}
    /\ g_config.soundfonts[2].enabled
    /\ g_config.soundfonts[2].path \in fs
    /\ g_config.sample_rate = CONFIG_DEFAULT_SAMPLE_RATE

(***************************************************************************)
(* The whole run of main with configuration files that try to select the   *)
(* MIDI transport: each file is absent or holds a midi_driver line naming  *)
(* the JACK or the raw ALSA transport, alone or followed by a gain line    *)
(* whose value no other input gives.  The same files are found at startup  *)
(* and at every reload.                                                    *)
(***************************************************************************)
SelectorFiles ==
    {Absent,
     FileOf(<<Line("midi_driver", Str("jack"))>>),
     FileOf(<<Line("midi_driver", Str("jack")), Line("gain", Num("0.7", 70))>>),
     FileOf(<<Line("midi_driver", Str("alsa_raw")), Line("gain", Num("0.9", 90))>>)}

InitMidiSelector == Init /\ fs = SfPaths

SelectorLoadConfiguration ==
    LoadConfigurationWith(SelectorFiles, SfPaths, SelectorFiles \X SelectorFiles)

SelectorReload == ReloadWith(SelectorFiles \X SelectorFiles)

NextMidiSelector ==
    \/ SelectorLoadConfiguration \/ ConfigPrint \/ CheckSoundfont \/ Daemonize \/ SetupSignals
    \/ InitAudio \/ InitSynth \/ InitMidi
    \/ LoopCheck \/ LoopReloadTest \/ LoopClear \/ SelectorReload \/ LoopProcess
    \/ Cleanup
    \/ SigTerm \/ SigHup

SpecMidiSelector == InitMidiSelector /\ [][NextMidiSelector]_vars

(* C39: no configuration file content changes the MIDI backend selector.   *)
(* From config_init_defaults on, through every file load and reload,       *)
(* midi_driver is the ALSA sequencer transport, so initialize_modules,     *)
(* main_loop and cleanup_modules take the ALSA sequencer branch and never  *)
(* the JACK one: no other transport is initialised or exists.              *)
C39_MidiDriverAlwaysAlsaSeq ==
    /\ g_config.midi_driver = MIDI_DRIVER_ALSA_SEQ
    /\ last_reload.result # "none" => last_reload.new_config.midi_driver = MIDI_DRIVER_ALSA_SEQ
    /\ \A i \in 1..Len(midi_attempts) : midi_attempts[i] = MIDI_DRIVER_ALSA_SEQ
    /\ midi_obj.kind \in {"none", "alsa"}

C39_Witness ==
    /\ pc = "loop_process"
    /\ last_reload.result = "ok"
    /\ last_reload.new_config.gain = 70
    /\ g_config.gain = 70
    /\ midi_obj.kind = "alsa"
    /\ midi_obj.state = "open"
    /\ midi_attempts = <<MIDI_DRIVER_ALSA_SEQ>>

====
